---- MODULE Spec2Model ----
(***************************************************************************)
(* State-machine model of the orchestration core of space_media_optimizer: *)
(* the size-classified permit scheduler (optimizer/media_optimizer.rs),    *)
(* the per-file task pipeline (optimizer/task_optimizer.rs), the output    *)
(* path computations (optimizer/path_resolver.rs, image_processor.rs), the *)
(* replace-in-place operation (file_manager.rs) and the persisted ledger   *)
(* of processed files (state.rs).                                          *)
(***************************************************************************)
EXTENDS Integers, Sequences, FiniteSets, TLC

(***************************************************************************)
(* Bounds of the model.                                                    *)
(***************************************************************************)
\* Number of discovered files in the scheduler specification.
NumSchedFiles == 2
\* Number of files in the media directory in the pipeline specifications.
NumPipeFiles == 1
\* Number of files in the specification of concurrent ledger writes.
NumConcurrentFiles == 2
\* Number of successive runs of the program over the same directory.
MaxRuns == 2
\* Latest value of the clock (seconds since the epoch).
MaxClock == 2
\* Number of cancellation signals that are broadcast.
MaxSignals == 2
\* Number of media files in the launch-order specification.
NumLaunchFiles == 3

(***************************************************************************)
(* Program constants.                                                      *)
(***************************************************************************)
MB_5 == 5 * 1024 * 1024
MB_20 == 20 * 1024 * 1024
\* Semaphore::new(1) for large files and for videos.
LargePermits == 1
VideoPermits == 1

VARIABLES
    config,      \* Config of the run (the fields the orchestration core reads)
    files,       \* the media files: id -> [stem, ext, size] (size at creation)
    file_sizes,  \* process_files_concurrently: the pre-computed size of each file
    discovered,  \* find_media_files: the ids of the files of this run, in order
    cm,          \* ConcurrencyManager: available permits of each semaphore
    permits,     \* ConcurrencyPermits held for each file: [class, global]
    pcMain,      \* position of MediaOptimizer::run / process_files_concurrently
    idx,         \* position of the launch loop in `discovered`
    joined,      \* number of task handles the join loop has awaited
    pc,          \* position of each spawned task
    result,      \* result of each task: "none", "optimized", "skipped", "error"
    timedOut,    \* whether the task's tokio::time::timeout expired
    encoder,     \* the external encoder process of each file: "idle", "running"
    stats,       \* OptimizationStats accumulated by the join loop
    fs,          \* the file system: path -> [data, mtime], for the paths that exist
    ledgerFile,  \* the persisted StateFile: path -> ProcessedFile
    local,       \* the local variables of each task's process_single_file
    now,         \* the clock, in seconds
    run,         \* number of the current run
    hist,        \* history: run -> file -> [encoded, outcome]
    dependencies, \* the external tools check_dependencies looks for: "ok", "missing"
    call,        \* a function applied on its own: [fn, args, ret, done]
    tracker,     \* ProgressTracker: the counters the progress events carry
    stop_channel, \* the broadcast channel of the cancellation signal: [sent]
    state_manager, \* MediaOptimizer::state_manager: [state, cleanups]
    events       \* the JsonMessages emitted on the standard output, in order

vars == <<config, files, file_sizes, discovered, cm, permits, pcMain, idx, joined,
          pc, result, timedOut, encoder, stats, fs, ledgerFile, local, now, run,
          hist, dependencies, call, tracker, stop_channel, state_manager,
          events>>

schedVars == <<cm, permits, pcMain, idx, joined, pc, result, timedOut, stats>>
inputVars == <<config, files, file_sizes, discovered, run, dependencies, call, stop_channel>>
quietVars == <<inputVars, state_manager>>
envVars == <<quietVars, events>>

(***************************************************************************)
(* Config::validate.  An f64 is a rational [num, den] with den > 0, or NaN *)
(* (written 0/0), with which every comparison is false.  A path exists     *)
(* when the file system has an entry for it.                               *)
(***************************************************************************)
NaN == [num |-> 0, den |-> 0]
IsNaN(x) == x.den = 0
\* x <= 0.0 and x > 1.0 on f64
f64_le_zero(x) == ~IsNaN(x) /\ x.num <= 0
f64_gt_one(x) == ~IsNaN(x) /\ x.num > x.den

\* A directory path as the path of a file system entry
EntryOf(d) == [dir |-> SubSeq(d, 1, Len(d) - 1), stem |-> d[Len(d)], ext |-> ""]

validate_any_workers(cfg, fsys) ==
    /\ ~(cfg.jpeg_quality = 0 \/ cfg.jpeg_quality > 100)
    /\ ~(cfg.webp_quality = 0 \/ cfg.webp_quality > 100)
    /\ ~(cfg.video_crf > 51)
    /\ ~(f64_le_zero(cfg.size_threshold) \/ f64_gt_one(cfg.size_threshold))
    /\ cfg.output_set
          => /\ EntryOf(cfg.output_path) \in DOMAIN fsys
             /\ fsys[EntryOf(cfg.output_path)].data.kind = "dir"
validate(cfg, fsys) ==
    /\ ~(cfg.jpeg_quality = 0 \/ cfg.jpeg_quality > 100)
    /\ ~(cfg.webp_quality = 0 \/ cfg.webp_quality > 100)
    /\ ~(cfg.video_crf > 51)
    /\ ~(f64_le_zero(cfg.size_threshold) \/ f64_gt_one(cfg.size_threshold))
    /\ ~(cfg.workers = 0)
    /\ cfg.output_set
          => /\ EntryOf(cfg.output_path) \in DOMAIN fsys
             /\ fsys[EntryOf(cfg.output_path)].data.kind = "dir"

(***************************************************************************)
(* Scheduler: pure functions.                                              *)
(***************************************************************************)
Max(a, b) == IF a >= b THEN a ELSE b

FileIds == DOMAIN files

\* FileManager::is_video / is_image: decided by the (lower-cased) extension.
VideoExts == {"mp4", "mov", "avi", "mkv", "webm"}
ImageExts == {"jpg", "jpeg", "png", "webp"}
is_video(ext) == ext \in VideoExts
is_image(ext) == ext \in ImageExts

\* FileSize::classify
classify_inclusive(size_bytes) ==
    IF size_bytes <= MB_5 THEN "Small"
    ELSE IF size_bytes <= MB_20 THEN "Medium"
    ELSE "Large"
classify(size_bytes) ==
    IF size_bytes < MB_5 THEN "Small"
    ELSE IF size_bytes < MB_20 THEN "Medium"
    ELSE "Large"

\* The class whose permit acquire_permits takes for file f: it is called with
\* the file's path and its pre-computed size.
PermitClass(ext, file_size) == IF is_video(ext) THEN "Video" ELSE classify(file_size)
ClassOf(f) == PermitClass(files[f].ext, file_sizes[f])

\* The timeout of the spawned task, in seconds: by is_video, then by
\* FileSize::classify(file_size).
timeout_duration(ext, file_size) ==
    IF is_video(ext) THEN 900
    ELSE CASE classify(file_size) = "Small"  -> 120
           [] classify(file_size) = "Medium" -> 300
           [] classify(file_size) = "Large"  -> 1200

\* ConcurrencyManager::new: medium_workers = (max_workers / 2).max(1)
medium_workers_no_halving(max_workers) == Max(max_workers, 1)
medium_workers(max_workers) == Max(max_workers \div 2, 1)

ConcurrencyManager_new_small_doubled(max_workers) ==
    [ small_semaphore    |-> 2 * max_workers,
      medium_semaphore   |-> medium_workers(max_workers),
      large_semaphore    |-> LargePermits,
      video_semaphore    |-> VideoPermits,
      global_large_block |-> max_workers ]
ConcurrencyManager_new(max_workers) ==
    [ small_semaphore    |-> max_workers,
      medium_semaphore   |-> medium_workers(max_workers),
      large_semaphore    |-> LargePermits,
      video_semaphore    |-> VideoPermits,
      global_large_block |-> max_workers ]

\* No ConcurrencyManager yet (before MediaOptimizer::new).
NoConcurrencyManager ==
    [ small_semaphore |-> 0, medium_semaphore |-> 0, large_semaphore |-> 0,
      video_semaphore |-> 0, global_large_block |-> 0 ]

NoPermits == [class |-> "none", global |-> 0]

\* acquire_permits: the semaphore each class of file acquires from
SemaphoreOf_video_on_large(class) ==
    CASE class = "Small"  -> "small_semaphore"
      [] class = "Medium" -> "medium_semaphore"
      [] class = "Large"  -> "large_semaphore"
      [] class = "Video"  -> "large_semaphore"
SemaphoreOf(class) ==
    CASE class = "Small"  -> "small_semaphore"
      [] class = "Medium" -> "medium_semaphore"
      [] class = "Large"  -> "large_semaphore"
      [] class = "Video"  -> "video_semaphore"

\* OptimizationStats::new / add_optimized / add_skipped / add_error (counters only)
OptimizationStats_new ==
    [files_processed |-> 0, files_optimized |-> 0, files_skipped |-> 0, errors |-> 0,
     total_bytes_saved |-> 0]

\* u64::saturating_sub
saturating_sub(a, b) == IF a > b THEN a - b ELSE 0

\* The join loop: add_optimized(original_size, optimized_size) for
\* Ok(Some(processed)), add_skipped(0) for Ok(None), add_error() for Err.
StatsAdd_skipped_unprocessed(s, res, processed) ==
    CASE res = "optimized" ->
            [s EXCEPT !.files_processed = @ + 1, !.files_optimized = @ + 1,
                      !.total_bytes_saved = @ + saturating_sub(processed.original_size,
                                                               processed.optimized_size)]
      [] res = "skipped" ->
            [s EXCEPT !.files_skipped = @ + 1]
      [] OTHER ->
            [s EXCEPT !.files_processed = @ + 1, !.errors = @ + 1]
StatsAdd_errors_uncounted(s, res, processed) ==
    CASE res = "optimized" ->
            [s EXCEPT !.files_processed = @ + 1, !.files_optimized = @ + 1,
                      !.total_bytes_saved = @ + saturating_sub(processed.original_size,
                                                               processed.optimized_size)]
      [] res = "skipped" ->
            [s EXCEPT !.files_processed = @ + 1, !.files_skipped = @ + 1]
      [] OTHER ->
            [s EXCEPT !.files_processed = @ + 1]
StatsAdd(s, res, processed) ==
    CASE res = "optimized" ->
            [s EXCEPT !.files_processed = @ + 1, !.files_optimized = @ + 1,
                      !.total_bytes_saved = @ + saturating_sub(processed.original_size,
                                                               processed.optimized_size)]
      [] res = "skipped" ->
            [s EXCEPT !.files_processed = @ + 1, !.files_skipped = @ + 1]
      [] OTHER ->
            [s EXCEPT !.files_processed = @ + 1, !.errors = @ + 1]

\* ProgressTracker::new
ProgressTracker_new ==
    [current_file |-> 0, files_optimized |-> 0, files_skipped |-> 0, errors |-> 0,
     bytes_saved |-> 0]

\* ProgressTracker::increment_current / add_optimized / add_skipped /
\* add_error: each takes the lock of the counter it changes.
increment_current_twice(tr) == [tr EXCEPT !.current_file = @ + 2]
increment_current(tr) == [tr EXCEPT !.current_file = @ + 1]
add_optimized(tr, bytes_saved) ==
    [tr EXCEPT !.files_optimized = @ + 1, !.bytes_saved = @ + bytes_saved]
add_skipped(tr) == [tr EXCEPT !.files_skipped = @ + 1]
add_error(tr) == [tr EXCEPT !.errors = @ + 1]

\* handle_file_completion, the counter its match arm adds to:
\* add_skipped for Ok(Some(processed)) with equal sizes and for Ok(None),
\* add_optimized(bytes_saved) for any other Ok(Some(processed)), add_error
\* for Err.
add_outcome(tr, res, processed) ==
    LET was_skipped == processed.original_size = processed.optimized_size
        bytes_saved == saturating_sub(processed.original_size, processed.optimized_size)
    IN  CASE res = "optimized" /\ was_skipped -> add_skipped(tr)
          [] res = "optimized" /\ ~was_skipped -> add_optimized(tr, bytes_saved)
          [] res = "skipped" -> add_skipped(tr)
          [] OTHER -> add_error(tr)

\* ProgressTracker::handle_file_completion, the counters after it:
\* increment_current, then the counter of the match arm.
handle_file_completion(tr, res, processed) ==
    add_outcome(increment_current(tr), res, processed)

(***************************************************************************)
(* Structured output (json_output.rs): the messages, and emit, which       *)
(* prints one line per message when config.json_output is set.             *)
(***************************************************************************)
JsonMessage_start(total_files) == [type |-> "start", total_files |-> total_files]
JsonMessage_file_start(f) == [type |-> "file_start", file |-> f]
JsonMessage_file_complete(f, skipped, error) ==
    [type |-> "file_complete", file |-> f, skipped |-> skipped, error |-> error]
JsonMessage_progress(current, total, files_optimized, files_skipped, errors, bytes_saved) ==
    [type |-> "progress", current |-> current, total |-> total,
     files_optimized |-> files_optimized, files_skipped |-> files_skipped,
     errors |-> errors, bytes_saved |-> bytes_saved]
JsonMessage_complete(s, historical_stats) ==
    [type |-> "complete", files_processed |-> s.files_processed,
     files_optimized |-> s.files_optimized, files_skipped |-> s.files_skipped,
     errors |-> s.errors, total_bytes_saved |-> s.total_bytes_saved,
     historical_stats |-> historical_stats]

emit(printed, cfg, messages) == IF cfg.json_output THEN printed \o messages ELSE printed

(***************************************************************************)
(* Cancellation: a tokio broadcast channel of capacity StopCapacity.  A    *)
(* receiver reads from its own position; a receiver more than the capacity *)
(* behind has lagged.                                                      *)
(***************************************************************************)
StopCapacity == 1
NoReceiver == [some |-> FALSE, next |-> 0]

\* broadcast::Receiver::try_recv, for a sender that is still alive
try_recv(receiver, channel) ==
    IF channel.sent - receiver.next > StopCapacity THEN "Lagged"
    ELSE IF receiver.next < channel.sent THEN "Ok"
    ELSE "Empty"

\* ImageProcessor::should_stop, VideoProcessor::should_stop
should_stop(stop_receiver, channel) ==
    IF stop_receiver.some
    THEN try_recv(stop_receiver, channel) \in {"Ok", "Lagged"}
    ELSE FALSE

\* TaskOptimizer::new: ImageProcessor::new and VideoProcessor::new, both
\* with stop_receiver: None.
TaskOptimizer_new ==
    [image_processor |-> [stop_receiver |-> NoReceiver],
     video_processor |-> [stop_receiver |-> NoReceiver]]

(***************************************************************************)
(* Paths.  A path is [dir, stem, ext]: dir is the sequence of components   *)
(* of the parent directory ("/" first when absolute), and the file name is *)
(* "stem.ext".  The working directory is "/".                                *)
(***************************************************************************)
MediaDir == <<"/", "media">>
OutDir == <<"/", "out">>
Stems == <<"a", "b", "c", "d", "e">>

IsAbsolute(d) == Len(d) > 0 /\ d[1] = "/"

IsPrefix(a, d) == Len(a) <= Len(d) /\ SubSeq(d, 1, Len(a)) = a

\* The one symbolic link of the file system: /link points to /media.
LinkPath == <<"/", "link">>

\* Path::canonicalize of a directory: "." components are dropped, a
\* relative path is taken from the working directory /, and the symbolic
\* link is resolved.
canonicalize(d) ==
    LET plain    == SelectSeq(d, LAMBDA c : c # ".")
        absolute == IF IsAbsolute(plain) THEN plain ELSE <<"/">> \o plain
    IN  IF IsPrefix(LinkPath, absolute)
        THEN MediaDir \o SubSeq(absolute, Len(LinkPath) + 1, Len(absolute))
        ELSE absolute

\* Path::join: an absolute second path replaces the first.
join(a, d) == IF IsAbsolute(d) THEN d ELSE a \o d

\* input_path.strip_prefix(base), then parent(): the relative directory, for
\* a base that is a prefix of the file's directory.
RelativeDir(d, base) == SubSeq(d, Len(base) + 1, Len(d))

\* A resolver that keeps the extension of the input whatever its kind.
get_output_extension_keeping(ext, cfg) == ext

\* PathResolver::get_output_extension
get_output_extension(ext, cfg) ==
    IF is_video(ext) THEN "mp4"
    ELSE IF cfg.convert_to_webp THEN "webp"
    ELSE ext

\* PathResolver::resolve_output_directory_path
resolve_output_directory_path(input_path, input_base_dir, output_dir, stem, ext) ==
    LET canonical_base   == canonicalize(input_base_dir)
        canonical_output == canonicalize(output_dir)
        relative_path ==
            IF IsPrefix(canonical_base, input_path.dir)
            THEN RelativeDir(input_path.dir, canonical_base)
            ELSE input_path.dir
    IN  [dir |-> join(canonical_output, relative_path), stem |-> stem, ext |-> ext]

\* PathResolver::get_output_path
PathResolver_get_output_path(input_path, input_base_dir, cfg) ==
    LET extension == get_output_extension(input_path.ext, cfg)
    IN  IF cfg.output_set
        THEN resolve_output_directory_path(input_path, input_base_dir, cfg.output_path,
                                           input_path.stem, extension)
        ELSE [dir |-> input_path.dir, stem |-> input_path.stem, ext |-> extension]

\* ImageProcessor::get_output_path: strip_prefix against input_base_dir as
\* given (not canonicalized), the whole input path when that fails.  The
\* path is then used as is: the file system resolves it (canonicalize).
ImageProcessor_get_output_path(input_path, input_base_dir, cfg) ==
    LET extension == IF cfg.convert_to_webp THEN "webp" ELSE input_path.ext
        relative_path ==
            IF IsPrefix(input_base_dir, input_path.dir)
            THEN RelativeDir(input_path.dir, input_base_dir)
            ELSE input_path.dir
    IN  IF cfg.output_set
        THEN [dir |-> canonicalize(join(cfg.output_path, relative_path)),
              stem |-> input_path.stem, ext |-> extension]
        ELSE [dir |-> input_path.dir, stem |-> input_path.stem, ext |-> extension]

\* The path the encoder of the file's media kind writes to
\* (ImageProcessor::optimize, VideoProcessor::optimize_internal).
EncoderOutputPath(input_path, input_base_dir, cfg) ==
    IF is_video(input_path.ext)
    THEN PathResolver_get_output_path(input_path, input_base_dir, cfg)
    ELSE ImageProcessor_get_output_path(input_path, input_base_dir, cfg)

\* FileManager::replace_file: original.with_extension("<ext>.backup")
BackupPath(original) == [original EXCEPT !.ext = original.ext \o ".backup"]

\* The canonical path of media file f.
InPath(f) == [dir |-> MediaDir, stem |-> files[f].stem, ext |-> files[f].ext]

(***************************************************************************)
(* The file system.                                                        *)
(***************************************************************************)
OrigData(f) == [kind |-> "orig", of |-> f, size |-> files[f].size]
OptData(f, s) == [kind |-> "opt", of |-> f, size |-> s]
EmptyData == [kind |-> "empty", of |-> 0, size |-> 0]
PartialData == [kind |-> "partial", of |-> 0, size |-> 1]

Exists(fsys, p) == p \in DOMAIN fsys

WriteFile(fsys, p, data, t) ==
    [q \in DOMAIN fsys \cup {p} |-> IF q = p THEN [data |-> data, mtime |-> t] ELSE fsys[q]]

RemoveFile(fsys, p) == [q \in DOMAIN fsys \ {p} |-> fsys[q]]

\* std::fs::copy(from, to) that succeeds: the file systems it can leave.  With
\* from = to the destination is opened with truncation before it is read:
\* "the file will likely get truncated by this operation".
CopyResults(fsys, from, to, t) ==
    IF from = to
    THEN {WriteFile(fsys, to, EmptyData, t), fsys}
    ELSE {WriteFile(fsys, to, fsys[from].data, t)}

\* std::fs::copy(from, to) that fails part-way: destination untouched, or
\* left half-written.
FailedCopyResults(fsys, to, t) == {fsys, WriteFile(fsys, to, PartialData, t)}

(***************************************************************************)
(* The ledger (state.rs).                                                  *)
(***************************************************************************)
EmptyLedger == [p \in {} |-> 0]

\* The text of the ledger file is the serialized StateFile, written here as
\* the map itself, or text that is not a StateFile, such as the beginning
\* of one: Truncated(state), a map with the one key Unreadable.
Unreadable == [dir |-> <<>>, stem |-> "", ext |-> ""]
Truncated(state) == [p \in {Unreadable} |-> state]
IsUnparsable(content) == Unreadable \in DOMAIN content

\* StateManager::new: serde_json::from_str(&content).unwrap_or_default()
from_str_recovering(content) ==
    IF IsUnparsable(content) THEN content[Unreadable] ELSE content
from_str(content) ==
    IF IsUnparsable(content) THEN EmptyLedger ELSE content

\* StateManager::is_processed
is_processed_any_time(state, file_path, modified_time) ==
    file_path \in DOMAIN state
is_processed(state, file_path, modified_time) ==
    /\ file_path \in DOMAIN state
    /\ state[file_path].modified_time = modified_time

\* StateManager::mark_processed: insert by path (the save is the caller's step)
insert_processed(state, file_path, processed_file) ==
    [q \in DOMAIN state \cup {file_path} |->
        IF q = file_path THEN processed_file ELSE state[q]]

\* StateManager::cleanup: the entries whose path still exists
cleanup(state, fsys) == [q \in {k \in DOMAIN state : Exists(fsys, k)} |-> state[q]]

\* The StateManager of the orchestrator: the StateFile it holds in memory
\* (StateManager::new reads the ledger file) and the number of calls of
\* cleanup it has completed.
NoStateManager == [state |-> EmptyLedger, cleanups |-> 0]
StateManager_new(file) == [state |-> from_str(file), cleanups |-> 0]
StateManager_cleanup(sm, fsys) ==
    [state |-> cleanup(sm.state, fsys), cleanups |-> sm.cleanups + 1]

\* StateManager::get_stats: the number of records and the bytes they saved
\* (the average reduction is derived from the same records).
RECURSIVE total_saved(_, _)
total_saved(state, keys) ==
    IF keys = {} THEN 0
    ELSE LET k == CHOOSE x \in keys : TRUE
         IN  saturating_sub(state[k].original_size, state[k].optimized_size)
                + total_saved(state, keys \ {k})
get_stats(state) ==
    [total_files_ever_processed |-> Cardinality(DOMAIN state),
     total_bytes_saved_historically |-> total_saved(state, DOMAIN state)]
\* HistoricalStats of handle_empty_directory
NoHistoricalStats ==
    [total_files_ever_processed |-> 0, total_bytes_saved_historically |-> 0]

\* ProcessedFile::new (path is the key; reduction_percent is derived)
ProcessedFile_new(modified_time, original_size, optimized_size) ==
    [modified_time |-> modified_time, original_size |-> original_size,
     optimized_size |-> optimized_size]

\* handle_optimization_result:
\*   (optimized_size as f64) < (original_size as f64 * size_threshold)
\* with size_threshold the rational num/den.
should_replace_or_equal(optimized_size, original_size, thr) ==
    optimized_size * thr.den <= original_size * thr.num
should_replace_always(optimized_size, original_size, thr) == TRUE
should_replace(optimized_size, original_size, thr) ==
    optimized_size * thr.den < original_size * thr.num


(***************************************************************************)
(* Initial states.                                                         *)
(***************************************************************************)
NoPath == [dir |-> <<>>, stem |-> "", ext |-> ""]
NoRecord == ProcessedFile_new(0, 0, 0)
NoLocal ==
    [ original_size  |-> 0,        \* get_file_info(file_path).0
      modified_time  |-> 0,        \* get_file_info(file_path).1
      loaded         |-> EmptyLedger, \* the state a live StateManager holds
      optimized_path |-> NoPath,   \* the path optimize_file returned
      optimized_size |-> 0,        \* get_file_info(optimized_path).0
      decision       |-> "none",   \* should_replace: "keep" or "discard"
      processed      |-> NoRecord, \* the ProcessedFile to return and record
      replaced       |-> FALSE,    \* replace_file has returned Ok
      progress       |-> ProgressTracker_new ] \* the counters emit_progress has read
NoHist == [encoded |-> FALSE, outcome |-> "none"]
NoCall == [fn |-> "none", args |-> <<>>, ret |-> <<>>, done |-> TRUE]

\* Config::default: size_threshold 0.9
DefaultThreshold == [num |-> 9, den |-> 10]
Thresholds == {DefaultThreshold, [num |-> 1, den |-> 2]}
WorkerBudgets == {1, 2, 4}

\* find_media_files: the media files the directory holds, in order
RECURSIVE Discover(_, _)
Discover(fsys, n) ==
    IF n = 0 THEN <<>>
    ELSE IF Exists(fsys, InPath(n)) THEN Append(Discover(fsys, n - 1), n)
    ELSE Discover(fsys, n - 1)

InitTasks(n) ==
    /\ permits = [f \in 1..n |-> NoPermits]
    /\ idx = 1
    /\ joined = 0
    /\ pc = [f \in 1..n |-> "unscheduled"]
    /\ result = [f \in 1..n |-> "none"]
    /\ timedOut = [f \in 1..n |-> FALSE]
    /\ encoder = [f \in 1..n |-> "idle"]
    /\ stats = OptimizationStats_new
    /\ local = [f \in 1..n |-> NoLocal]
    /\ hist = [r \in 1..MaxRuns |-> [f \in 1..n |-> NoHist]]
    /\ run = 1
    /\ call = NoCall
    /\ tracker = ProgressTracker_new
    /\ stop_channel = [sent |-> 0]
    /\ events = <<>>

\* Scheduler specification: files of every class, already discovered and
\* sized; the pipeline of each task is abstracted to its encoder process and
\* its result.
SchedMenu ==
    { [ext |-> "jpg", size |-> MB_5 - 1],
      [ext |-> "jpg", size |-> MB_5],
      [ext |-> "jpg", size |-> MB_20],
      [ext |-> "mp4", size |-> MB_5 - 1] }

InitSchedOf(n) ==
    /\ \E w \in WorkerBudgets :
          config = [ json_output |-> FALSE, jpeg_quality |-> 80, webp_quality |-> 80, video_crf |-> 26,
                     workers |-> w, output_set |-> FALSE, output_path |-> OutDir,
                     dry_run |-> FALSE, keep_processed |-> FALSE,
                     convert_to_webp |-> FALSE, size_threshold |-> DefaultThreshold,
                     input_base_dir |-> MediaDir ]
    /\ \E fl \in [1..n -> SchedMenu] :
          files = [i \in 1..n |->
                      [stem |-> Stems[i], ext |-> fl[i].ext, size |-> fl[i].size]]
    /\ file_sizes = [f \in 1..n |-> files[f].size]
    /\ discovered = [i \in 1..n |-> i]
    /\ cm = ConcurrencyManager_new(config.workers)
    /\ pcMain = "launch"
    /\ InitTasks(n)
    /\ dependencies = "ok"
    /\ fs = [p \in {} |-> 0]
    /\ ledgerFile = EmptyLedger
    /\ now = 1
    /\ state_manager = StateManager_cleanup(StateManager_new(ledgerFile), fs)

InitSched == InitSchedOf(NumSchedFiles)

\* Pipeline specifications: small media files in the media directory, images
\* or videos, all of 10 bytes and last modified at time 1; the encoder's
\* output has one of the sizes of OptSizes.
PipeExts == {"jpg", "mov"}
OptSizes == {5, 9}

\* The media directory before the program is executed.
OriginalFiles(n) ==
    [p \in {InPath(f) : f \in 1..n} |->
        LET f == CHOOSE g \in 1..n : InPath(g) = p
        IN  [data |-> OrigData(f), mtime |-> 1]]

InitMedia(cfg, n) ==
    /\ config = cfg
    /\ \E ext \in [1..n -> PipeExts] :
          files = [i \in 1..n |-> [stem |-> Stems[i], ext |-> ext[i], size |-> 10]]
    /\ file_sizes = [f \in 1..n |-> 0]
    /\ discovered = <<>>
    /\ InitTasks(n)
    /\ now = 1

InitDisk(cfg, n) ==
    /\ InitMedia(cfg, n)
    /\ fs = OriginalFiles(n)

\* ... and after MediaOptimizer::new, with the external tools installed.
InitPipe(cfg, n) ==
    /\ InitDisk(cfg, n)
    /\ cm = ConcurrencyManager_new(config.workers)
    /\ pcMain = "start"
    /\ dependencies = "ok"

\* In place, one execution; the ledger is empty or holds the record an
\* earlier execution left for the first file.
InitInPlace ==
    /\ \E d \in BOOLEAN, w \in BOOLEAN, t \in Thresholds :
          InitPipe([ json_output |-> FALSE, jpeg_quality |-> 80, webp_quality |-> 80, video_crf |-> 26,
                     workers |-> 2, output_set |-> FALSE, output_path |-> OutDir,
                     dry_run |-> d, keep_processed |-> FALSE,
                     convert_to_webp |-> w, size_threshold |-> t,
                     input_base_dir |-> MediaDir ], NumPipeFiles)
    /\ \/ ledgerFile = EmptyLedger
       \/ \E m \in 0..MaxClock :
             ledgerFile = insert_processed(EmptyLedger, InPath(1),
                                           ProcessedFile_new(m, 10, 9))
    /\ state_manager = StateManager_new(ledgerFile)

\* In place, one execution with two workers over several files, from an
\* empty ledger.
InitConcurrent ==
    /\ \E w \in BOOLEAN :
          InitPipe([ json_output |-> FALSE, jpeg_quality |-> 80, webp_quality |-> 80, video_crf |-> 26,
                     workers |-> 2, output_set |-> FALSE, output_path |-> OutDir,
                     dry_run |-> FALSE, keep_processed |-> FALSE,
                     convert_to_webp |-> w, size_threshold |-> DefaultThreshold,
                     input_base_dir |-> MediaDir ], NumConcurrentFiles)
    /\ ledgerFile = EmptyLedger
    /\ state_manager = StateManager_new(ledgerFile)

\* In place, successive executions, from an empty ledger.
InitRerun ==
    /\ \E w \in BOOLEAN :
          InitPipe([ json_output |-> FALSE, jpeg_quality |-> 80, webp_quality |-> 80, video_crf |-> 26,
                     workers |-> 1, output_set |-> FALSE, output_path |-> OutDir,
                     dry_run |-> FALSE, keep_processed |-> FALSE,
                     convert_to_webp |-> w, size_threshold |-> DefaultThreshold,
                     input_base_dir |-> MediaDir ], NumPipeFiles)
    /\ ledgerFile = EmptyLedger
    /\ state_manager = StateManager_new(ledgerFile)

\* Output directory, successive executions; the media directory is given as
\* an absolute or as a relative path.
InitOutDir ==
    /\ \E d \in BOOLEAN, k \in BOOLEAN, b \in {MediaDir, <<"media">>} :
          InitPipe([ json_output |-> FALSE, jpeg_quality |-> 80, webp_quality |-> 80, video_crf |-> 26,
                     workers |-> 1, output_set |-> TRUE, output_path |-> OutDir,
                     dry_run |-> d, keep_processed |-> k,
                     convert_to_webp |-> FALSE, size_threshold |-> DefaultThreshold,
                     input_base_dir |-> b ], NumPipeFiles)
    /\ ledgerFile = EmptyLedger
    /\ state_manager = StateManager_new(ledgerFile)

\* In place, one execution from the call of MediaOptimizer::new, with a
\* configuration that may be invalid and tools that may be missing; the
\* ledger holds the record of a file that no longer exists.
StartupWorkers == {0, 1}
StartupThresholds == {[num |-> 0, den |-> 10], DefaultThreshold, [num |-> 3, den |-> 2]}
GonePath == [dir |-> MediaDir, stem |-> "gone", ext |-> "jpg"]
StaleLedger == insert_processed(EmptyLedger, GonePath, ProcessedFile_new(1, 10, 5))

InitStartup ==
    /\ \E w \in StartupWorkers, t \in StartupThresholds :
          InitDisk([ json_output |-> FALSE, jpeg_quality |-> 80, webp_quality |-> 80, video_crf |-> 26,
                     workers |-> w, output_set |-> FALSE, output_path |-> OutDir,
                     dry_run |-> FALSE, keep_processed |-> FALSE,
                     convert_to_webp |-> FALSE, size_threshold |-> t,
                     input_base_dir |-> MediaDir ], NumPipeFiles)
    /\ cm = NoConcurrencyManager
    /\ pcMain = "new"
    /\ dependencies \in {"ok", "missing"}
    /\ ledgerFile = StaleLedger
    /\ state_manager = NoStateManager
(***************************************************************************)
(* MediaOptimizer::new and run, up to the launch loop.                     *)
(***************************************************************************)
\* MediaOptimizer::new: config.validate()?, then the StateManager and the
\* ConcurrencyManager are built.
MediaOptimizer_new ==
    /\ pcMain = "new"
    /\ IF validate(config, fs)
       THEN /\ state_manager' = StateManager_new(ledgerFile)
            /\ cm' = ConcurrencyManager_new(config.workers)
            /\ pcMain' = "start"
       ELSE /\ pcMain' = "aborted"
            /\ UNCHANGED <<cm, state_manager>>
    /\ UNCHANGED <<inputVars, events, tracker, encoder, permits, idx, joined, pc, result, timedOut,
                   stats, fs, ledgerFile, local, now, hist>>

\* run: the start message, then check_dependencies()? returns its error,
\* before cleanup.
CheckDependenciesFails ==
    /\ pcMain = "start"
    /\ dependencies = "missing"
    /\ pcMain' = "aborted"
    /\ events' = emit(events, config, <<JsonMessage_start(Len(Discover(fs, Len(files))))>>)
    /\ UNCHANGED <<quietVars, tracker, encoder, cm, permits, idx, joined, pc, result, timedOut,
                   stats, fs, ledgerFile, local, now, hist>>

\* run: find_media_files walks the media directory, the start message is
\* emitted, check_dependencies finds the tools, cleanup drops the records of
\* paths that no longer exist from the state in memory (and saves it when it
\* dropped any); with no file handle_empty_directory ends the run, else
\* process_files_concurrently pre-computes the file sizes.
StartRun ==
    /\ pcMain = "start"
    /\ dependencies = "ok"
    /\ discovered' = Discover(fs, Len(files))
    /\ state_manager' = StateManager_cleanup(state_manager, fs)
    /\ ledgerFile' = IF DOMAIN state_manager'.state # DOMAIN state_manager.state
                      THEN state_manager'.state
                      ELSE ledgerFile
    /\ file_sizes' = [f \in FileIds |->
                        IF Exists(fs, InPath(f)) THEN fs[InPath(f)].data.size ELSE 0]
    /\ pcMain' = IF discovered' = <<>> THEN "done" ELSE "launch"
    /\ events' = emit(events, config,
                      <<JsonMessage_start(Len(discovered'))>>
                         \o IF discovered' = <<>>
                            THEN <<JsonMessage_complete(OptimizationStats_new,
                                                        NoHistoricalStats)>>
                            ELSE <<>>)
    /\ UNCHANGED <<config, files, run, dependencies, call, tracker, stop_channel, cm, permits, idx, joined,
                   pc, result, timedOut, encoder, stats, fs, local, now, hist>>

(***************************************************************************)
(* process_files_concurrently: the launch loop.                            *)
(***************************************************************************)
\* acquire_permits for a Small, Medium or Video file, then tokio::spawn.
\* The acquire suspends the loop while the class semaphore has no permit.
AcquireAndSpawn ==
    /\ pcMain = "launch"
    /\ idx <= Len(discovered)
    /\ LET f     == discovered[idx]
           class == ClassOf(f)
           sem   == SemaphoreOf(class)
       IN  /\ class # "Large"
           /\ cm[sem] > 0
           /\ cm' = [cm EXCEPT ![sem] = @ - 1]
           /\ permits' = [permits EXCEPT ![f] = [class |-> class, global |-> 0]]
           /\ pc' = [pc EXCEPT ![f] = "running"]
    /\ idx' = idx + 1
    /\ UNCHANGED <<envVars, tracker, encoder, pcMain, joined, result, timedOut, stats,
                   fs, ledgerFile, local, now, hist>>

\* acquire_permits for a Large file, first await: the large_semaphore permit.
AcquireLarge ==
    /\ pcMain = "launch"
    /\ idx <= Len(discovered)
    /\ ClassOf(discovered[idx]) = "Large"
    /\ cm.large_semaphore > 0
    /\ cm' = [cm EXCEPT !.large_semaphore = @ - 1]
    /\ permits' = [permits EXCEPT ![discovered[idx]] = [class |-> "Large", global |-> 0]]
    /\ pcMain' = "drain"
    /\ UNCHANGED <<envVars, tracker, encoder, idx, joined, pc, result, timedOut, stats,
                   fs, ledgerFile, local, now, hist>>

\* acquire_permits for a Large file, the try_acquire loop over the permits
\* global_large_block has available, then tokio::spawn.
DrainGlobalAndSpawn ==
    /\ pcMain = "drain"
    /\ LET f         == discovered[idx]
           available == cm.global_large_block
       IN  /\ cm' = [cm EXCEPT !.global_large_block = @ - available]
           /\ permits' = [permits EXCEPT ![f].global = available]
           /\ pc' = [pc EXCEPT ![f] = "running"]
    /\ idx' = idx + 1
    /\ pcMain' = "launch"
    /\ UNCHANGED <<envVars, tracker, encoder, joined, result, timedOut, stats,
                   fs, ledgerFile, local, now, hist>>

\* The launch loop is over: go on to the join loop.
LaunchDone_cleaning ==
    /\ pcMain = "launch"
    /\ idx > Len(discovered)
    /\ pcMain' = "join"
    /\ state_manager' = StateManager_cleanup(state_manager, fs)
    /\ UNCHANGED <<inputVars, events, tracker, encoder, cm, permits, idx, joined, pc, result, timedOut, stats,
                   fs, ledgerFile, local, now, hist>>
LaunchDone ==
    /\ pcMain = "launch"
    /\ idx > Len(discovered)
    /\ pcMain' = "join"
    /\ UNCHANGED <<envVars, tracker, encoder, cm, permits, idx, joined, pc, result, timedOut, stats,
                   fs, ledgerFile, local, now, hist>>

(***************************************************************************)
(* The spawned task, seen from the scheduler: process_single_file returns  *)
(* before the encoder is called (skipped, or an error), or calls the       *)
(* encoder, a child process, and waits for it to exit.                     *)
(***************************************************************************)
\* The first thing a spawned task does is to emit file_start.
StartEvents(f) ==
    IF pc[f] = "running"
    THEN emit(events, config, <<JsonMessage_file_start(f)>>)
    ELSE events

\* handle_file_completion, what it emits: file_complete (for Ok(None) and
\* Err only when the metadata of the file can be read) ...
FileCompleteMessages(f) ==
    LET was_skipped == local[f].processed.original_size = local[f].processed.optimized_size
    IN  CASE result[f] = "optimized" -> <<JsonMessage_file_complete(f, was_skipped, FALSE)>>
          [] result[f] = "skipped" /\ Exists(fs, InPath(f)) ->
                <<JsonMessage_file_complete(f, TRUE, FALSE)>>
          [] result[f] = "error" /\ Exists(fs, InPath(f)) ->
                <<JsonMessage_file_complete(f, FALSE, TRUE)>>
          [] OTHER -> <<>>

\* ... then emit_progress: the progress message made of the counters read.
ProgressMessage(read) ==
    JsonMessage_progress(read.current_file, Len(discovered), read.files_optimized,
                         read.files_skipped, read.errors, read.bytes_saved)

\* Both, when no other task touches the tracker in between.
CompletionMessages(f, tr) == FileCompleteMessages(f) \o <<ProgressMessage(tr)>>

TaskEndsEarly(f) ==
    /\ pc[f] = "running"
    /\ \E r \in {"skipped", "error"} : result' = [result EXCEPT ![f] = r]
    /\ pc' = [pc EXCEPT ![f] = "completing"]
    /\ events' = StartEvents(f)
    /\ UNCHANGED <<quietVars, tracker, encoder, cm, permits, pcMain, idx, joined, timedOut, stats,
                   fs, ledgerFile, local, now, hist>>

\* The checkpoints of optimize before the encoder call: should_stop of the
\* processor of the file's media kind, as the task's TaskOptimizer built it.
StopRequested(f) ==
    LET processor == IF is_video(files[f].ext)
                     THEN TaskOptimizer_new.video_processor
                     ELSE TaskOptimizer_new.image_processor
    IN  should_stop(processor.stop_receiver, stop_channel)

\* optimize: Err("cancelled by user") at a checkpoint, or
\* Command::new(tool).status() / .output(): the child process is spawned.
EncoderStarts(f) ==
    /\ pc[f] = "running"
    /\ encoder[f] = "idle"
    /\ IF StopRequested(f)
       THEN /\ result' = [result EXCEPT ![f] = "error"]
            /\ pc' = [pc EXCEPT ![f] = "completing"]
            /\ UNCHANGED encoder
       ELSE /\ encoder' = [encoder EXCEPT ![f] = "running"]
            /\ pc' = [pc EXCEPT ![f] = "encoding"]
            /\ UNCHANGED result
    /\ events' = StartEvents(f)
    /\ UNCHANGED <<quietVars, tracker, cm, permits, pcMain, idx, joined, timedOut, stats,
                   fs, ledgerFile, local, now, hist>>

\* stop_sender.send(()): whoever holds the sender of a cancellation channel
\* broadcasts the signal.
Broadcast ==
    /\ stop_channel.sent < MaxSignals
    /\ stop_channel' = [stop_channel EXCEPT !.sent = @ + 1]
    /\ UNCHANGED <<config, files, file_sizes, discovered, run, dependencies, call,
                   state_manager, events, tracker, schedVars, encoder, fs, ledgerFile, local, now, hist>>

\* The child exits and the rest of process_single_file runs to its result.
EncoderExits(f) ==
    /\ pc[f] = "encoding"
    /\ encoder[f] = "running"
    /\ encoder' = [encoder EXCEPT ![f] = "idle"]
    /\ \E r \in {"optimized", "error"} : result' = [result EXCEPT ![f] = r]
    /\ pc' = [pc EXCEPT ![f] = "completing"]
    /\ UNCHANGED <<envVars, tracker, cm, permits, pcMain, idx, joined, timedOut, stats,
                   fs, ledgerFile, local, now, hist>>

\* A child whose task was cancelled (the Command does not set kill_on_drop)
\* goes on until it exits by itself.
OrphanExits(f) ==
    /\ encoder[f] = "running"
    /\ pc[f] # "encoding"
    /\ encoder' = [encoder EXCEPT ![f] = "idle"]
    /\ UNCHANGED <<envVars, tracker, schedVars, fs, ledgerFile, local, now, hist>>

\* The positions of a task inside process_single_file.
BodyPcs == {"running", "encoding", "skipcheck", "optimize", "measure", "keep",
            "swap", "discard", "mark", "save"}

\* handle_timeout: with an output directory, copy the original to the path
\* PathResolver resolves; a failure of the copy is only logged.
handle_timeout(fsys, f, t) ==
    IF config.output_set /\ Exists(fsys, InPath(f))
    THEN CopyResults(fsys, InPath(f),
                     PathResolver_get_output_path(InPath(f), config.input_base_dir, config), t)
            \cup {fsys}
    ELSE {fsys}

\* The tokio::fs operation process_single_file is suspended on when its
\* future is dropped: tokio::fs hands the operation to the blocking pool, where
\* it is carried out (or fails) whether or not the future is still awaited.
\*   "keep"  in place, not a dry run: replace_file's copy original -> backup;
\*   "swap"  replace_file's copy optimized -> original;
\*   "save"  StateManager::save's write of the ledger file.
\* The result is the set of [fs, ledgerFile] the operation can leave.
CopiesInFlight(f) ==
    /\ ~config.output_set
    /\ ~config.dry_run
    /\ \/ pc[f] = "keep" /\ Exists(fs, InPath(f))
       \/ pc[f] = "swap" /\ Exists(fs, local[f].optimized_path)

InFlight(f, t) ==
    IF pc[f] = "save"
    THEN {[fs |-> fs, ledgerFile |-> ledgerFile],
          [fs |-> fs,
           ledgerFile |-> insert_processed(local[f].loaded, InPath(f), local[f].processed)]}
    ELSE IF CopiesInFlight(f)
    THEN LET from == IF pc[f] = "keep" THEN InPath(f) ELSE local[f].optimized_path
             to   == IF pc[f] = "keep" THEN BackupPath(InPath(f)) ELSE InPath(f)
         IN  {[fs |-> x, ledgerFile |-> ledgerFile] :
                 x \in CopyResults(fs, from, to, t) \cup FailedCopyResults(fs, to, t)}
    ELSE {[fs |-> fs, ledgerFile |-> ledgerFile]}

\* tokio::time::timeout expires while process_single_file is suspended: the
\* future is dropped (a running child process is not killed, an operation
\* in flight is carried out), handle_timeout, then Err("Processing timeout").
TaskTimesOut(f) ==
    /\ pc[f] \in BodyPcs
    /\ \E t \in IF config.output_set \/ CopiesInFlight(f) THEN now..MaxClock ELSE {now} :
          \E o \in InFlight(f, t) :
             /\ now' = t
             /\ ledgerFile' = o.ledgerFile
             /\ fs' \in handle_timeout(o.fs, f, t)
    /\ result' = [result EXCEPT ![f] = "error"]
    /\ timedOut' = [timedOut EXCEPT ![f] = TRUE]
    /\ hist' = [hist EXCEPT ![run][f].outcome = "error"]
    /\ pc' = [pc EXCEPT ![f] = "completing"]
    /\ events' = StartEvents(f)
    /\ UNCHANGED <<quietVars, tracker, encoder, cm, permits, pcMain, idx, joined, stats, local>>

\* handle_file_completion, then the task returns and its `_permits` is
\* dropped: the class permit first (fields drop in declaration order).
TaskDropsPermit_keeping(f) ==
    /\ pc[f] = "completing"
    /\ tracker' = handle_file_completion(tracker, result[f], local[f].processed)
    /\ permits' = [permits EXCEPT ![f].class = "none"]
    /\ pc' = [pc EXCEPT ![f] = IF permits[f].global > 0 THEN "dropping" ELSE "settled"]
    /\ events' = emit(events, config, CompletionMessages(f, tracker'))
    /\ UNCHANGED <<quietVars, encoder, cm, pcMain, idx, joined, result, timedOut, stats,
                   fs, ledgerFile, local, now, hist>>
TaskDropsPermit(f) ==
    /\ pc[f] = "completing"
    /\ cm' = [cm EXCEPT ![SemaphoreOf(permits[f].class)] = @ + 1]
    /\ tracker' = handle_file_completion(tracker, result[f], local[f].processed)
    /\ permits' = [permits EXCEPT ![f].class = "none"]
    /\ pc' = [pc EXCEPT ![f] = IF permits[f].global > 0 THEN "dropping" ELSE "settled"]
    /\ events' = emit(events, config, CompletionMessages(f, tracker'))
    /\ UNCHANGED <<quietVars, encoder, pcMain, idx, joined, result, timedOut, stats,
                   fs, ledgerFile, local, now, hist>>

\* ... then the Vec of drained global permits of a Large task.
TaskDropsGlobal_leaking(f) ==
    /\ pc[f] = "dropping"
    /\ permits' = [permits EXCEPT ![f].global = 0]
    /\ pc' = [pc EXCEPT ![f] = "settled"]
    /\ UNCHANGED <<envVars, tracker, encoder, cm, pcMain, idx, joined, result, timedOut, stats,
                   fs, ledgerFile, local, now, hist>>
TaskDropsGlobal(f) ==
    /\ pc[f] = "dropping"
    /\ cm' = [cm EXCEPT !.global_large_block = @ + permits[f].global]
    /\ permits' = [permits EXCEPT ![f].global = 0]
    /\ pc' = [pc EXCEPT ![f] = "settled"]
    /\ UNCHANGED <<envVars, tracker, encoder, pcMain, idx, joined, result, timedOut, stats,
                   fs, ledgerFile, local, now, hist>>

(***************************************************************************)
(* process_files_concurrently: the join loop, in launch order.             *)
(***************************************************************************)
JoinTask_not_awaiting ==
    /\ pcMain = "join"
    /\ joined < Len(discovered)
    /\ stats' = StatsAdd(stats, result[discovered[joined + 1]],
                       local[discovered[joined + 1]].processed)
    /\ joined' = joined + 1
    /\ UNCHANGED <<envVars, tracker, encoder, cm, permits, pcMain, idx, pc, result, timedOut,
                   fs, ledgerFile, local, now, hist>>
\* task.await returns once the task has ended; its result is counted.
JoinTask ==
    /\ pcMain = "join"
    /\ joined < Len(discovered)
    /\ pc[discovered[joined + 1]] = "settled"
    /\ stats' = StatsAdd(stats, result[discovered[joined + 1]],
                       local[discovered[joined + 1]].processed)
    /\ joined' = joined + 1
    /\ UNCHANGED <<envVars, tracker, encoder, cm, permits, pcMain, idx, pc, result, timedOut,
                   fs, ledgerFile, local, now, hist>>

\* Ok(stats) is returned; print_final_stats reports the statistics of the
\* run and those of the orchestrator's StateManager.
FinalReport_from_file ==
    /\ pcMain = "join"
    /\ joined = Len(discovered)
    /\ pcMain' = "done"
    /\ events' = emit(events, config,
                      <<JsonMessage_complete(stats, get_stats(ledgerFile))>>)
    /\ UNCHANGED <<quietVars, tracker, encoder, cm, permits, idx, joined, pc, result, timedOut, stats,
                   fs, ledgerFile, local, now, hist>>
FinalReport ==
    /\ pcMain = "join"
    /\ joined = Len(discovered)
    /\ pcMain' = "done"
    /\ events' = emit(events, config,
                      <<JsonMessage_complete(stats, get_stats(state_manager.state))>>)
    /\ UNCHANGED <<quietVars, tracker, encoder, cm, permits, idx, joined, pc, result, timedOut, stats,
                   fs, ledgerFile, local, now, hist>>

NextSched ==
    \/ AcquireAndSpawn
    \/ AcquireLarge
    \/ DrainGlobalAndSpawn
    \/ LaunchDone
    \/ \E f \in FileIds : TaskEndsEarly(f)
    \/ \E f \in FileIds : EncoderStarts(f)
    \/ \E f \in FileIds : EncoderExits(f)
    \/ \E f \in FileIds : OrphanExits(f)
    \/ \E f \in FileIds : TaskTimesOut(f)
    \/ \E f \in FileIds : TaskDropsPermit(f)
    \/ \E f \in FileIds : TaskDropsGlobal(f)
    \/ JoinTask
    \/ FinalReport

SpecSched == InitSched /\ [][NextSched]_vars

\* The same with a cancellation signal broadcast at any time.
NextCancel ==
    \/ NextSched
    \/ Broadcast

SpecCancel == InitSched /\ [][NextCancel]_vars

\* The same under the scheduling of the tokio runtime: the orchestrating
\* future is polled when it can go on, and so is every spawned task, whose
\* encoder call returns or is cut by the task's timeout.
MainStep ==
    \/ AcquireAndSpawn
    \/ AcquireLarge
    \/ DrainGlobalAndSpawn
    \/ LaunchDone
    \/ JoinTask
    \/ FinalReport

TaskStep(f) ==
    \/ TaskEndsEarly(f)
    \/ EncoderStarts(f)
    \/ EncoderExits(f)
    \/ TaskTimesOut(f)
    \/ TaskDropsPermit(f)
    \/ TaskDropsGlobal(f)

SpecSchedFair ==
    /\ InitSched
    /\ [][NextSched]_vars
    /\ WF_vars(MainStep)
    /\ \A f \in 1..NumSchedFiles : WF_vars(TaskStep(f))

(***************************************************************************)
(* TaskOptimizer::process_single_file, step by step.  A step that writes a *)
(* file does so at some time t not before the last one observed.           *)
(***************************************************************************)
Fail(f) ==
    /\ result' = [result EXCEPT ![f] = "error"]
    /\ hist' = [hist EXCEPT ![run][f].outcome = "error"]
    /\ pc' = [pc EXCEPT ![f] = "completing"]

\* canonicalize and FileManager::get_file_info: an error if the file is gone.
GetFileInfo(f) ==
    /\ pc[f] = "running"
    /\ IF Exists(fs, InPath(f))
       THEN /\ local' = [local EXCEPT ![f] =
                           [NoLocal EXCEPT !.original_size = fs[InPath(f)].data.size,
                                           !.modified_time = fs[InPath(f)].mtime]]
            /\ pc' = [pc EXCEPT ![f] = "skipcheck"]
            /\ UNCHANGED <<result, hist>>
       ELSE /\ Fail(f)
            /\ UNCHANGED local
    /\ events' = StartEvents(f)
    /\ UNCHANGED <<quietVars, tracker, encoder, cm, permits, pcMain, idx, joined, timedOut, stats,
                   fs, ledgerFile, now>>

\* should_skip_file: in place, a fresh StateManager reads the ledger file and
\* answers is_processed; with an output directory and keep_processed, whether
\* the path PathResolver resolves exists.  Ok(None) when the file is skipped.
ShouldSkip(f) ==
    /\ pc[f] = "skipcheck"
    /\ LET skip == IF ~config.output_set
                   THEN is_processed(from_str(ledgerFile), InPath(f),
                                     local[f].modified_time)
                   ELSE /\ config.keep_processed
                        /\ Exists(fs, PathResolver_get_output_path(
                                         InPath(f), config.input_base_dir, config))
       IN  IF skip
           THEN /\ result' = [result EXCEPT ![f] = "skipped"]
                /\ pc' = [pc EXCEPT ![f] = "completing"]
                /\ hist' = [hist EXCEPT ![run][f].outcome = "skipped"]
           ELSE /\ pc' = [pc EXCEPT ![f] = "optimize"]
                /\ UNCHANGED <<result, hist>>
    /\ UNCHANGED <<envVars, tracker, encoder, cm, permits, pcMain, idx, joined, timedOut, stats,
                   fs, ledgerFile, local, now>>

\* optimize_file, the encoder's run taken as one step: the encoder of the
\* file's media kind either fails, leaving no output (the error is wrapped
\* and returned), or, no checkpoint having found a stop signal, writes an
\* output of some size to its output path and returns that path.
OptimizeFile(f) ==
    /\ pc[f] = "optimize"
    /\ LET out == EncoderOutputPath(InPath(f), config.input_base_dir, config)
       IN  \/ /\ ~StopRequested(f)
              /\ \E s \in OptSizes, t \in now..MaxClock :
                    /\ now' = t
                    /\ fs' = WriteFile(fs, out, OptData(f, s), t)
              /\ local' = [local EXCEPT ![f].optimized_path = out]
              /\ pc' = [pc EXCEPT ![f] = "measure"]
              /\ hist' = [hist EXCEPT ![run][f].encoded = TRUE]
              /\ UNCHANGED result
           \/ /\ result' = [result EXCEPT ![f] = "error"]
              /\ pc' = [pc EXCEPT ![f] = "completing"]
              /\ hist' = [hist EXCEPT ![run][f] = [encoded |-> TRUE, outcome |-> "error"]]
              /\ UNCHANGED <<fs, local, now>>
    /\ UNCHANGED <<envVars, tracker, encoder, cm, permits, pcMain, idx, joined, timedOut, stats,
                   ledgerFile>>

\* get_file_info(optimized_path), ProcessedFile::new, and the decision of
\* handle_optimization_result.
MeasureAndDecide(f) ==
    /\ pc[f] = "measure"
    /\ IF Exists(fs, local[f].optimized_path)
       THEN LET optimized_size == fs[local[f].optimized_path].data.size
                keep == should_replace(optimized_size, local[f].original_size,
                                       config.size_threshold)
            IN  /\ local' = [local EXCEPT
                      ![f].optimized_size = optimized_size,
                      ![f].processed = ProcessedFile_new(local[f].modified_time,
                                          local[f].original_size, optimized_size),
                      ![f].decision = IF keep THEN "keep" ELSE "discard"]
                /\ pc' = [pc EXCEPT ![f] = IF keep THEN "keep" ELSE "discard"]
                /\ UNCHANGED <<result, hist>>
       ELSE /\ Fail(f)
            /\ UNCHANGED local
    /\ UNCHANGED <<envVars, tracker, encoder, cm, permits, pcMain, idx, joined, timedOut, stats,
                   fs, ledgerFile, now>>

\* handle_successful_optimization, up to the first copy of replace_file:
\*   dry run: remove_file(optimized_path);
\*   output directory: nothing to do;
\*   in place: replace_file copies the original to the backup path.
HandleSuccessful(f) ==
    /\ pc[f] = "keep"
    /\ IF config.dry_run
       THEN /\ fs' = RemoveFile(fs, local[f].optimized_path)
            /\ pc' = [pc EXCEPT ![f] = "mark"]
            /\ UNCHANGED <<result, hist, now>>
       ELSE IF config.output_set
       THEN /\ pc' = [pc EXCEPT ![f] = "mark"]
            /\ UNCHANGED <<fs, result, hist, now>>
       ELSE \E t \in now..MaxClock :
               /\ now' = t
               /\ \/ /\ Exists(fs, InPath(f))
                     /\ fs' \in CopyResults(fs, InPath(f), BackupPath(InPath(f)), t)
                     /\ pc' = [pc EXCEPT ![f] = "swap"]
                     /\ UNCHANGED <<result, hist>>
                  \/ /\ fs' \in IF Exists(fs, InPath(f))
                                THEN FailedCopyResults(fs, BackupPath(InPath(f)), t)
                                ELSE {fs}
                     /\ Fail(f)
    /\ UNCHANGED <<envVars, tracker, encoder, cm, permits, pcMain, idx, joined, timedOut, stats,
                   ledgerFile, local>>

\* replace_file, from its second copy on, and back in
\* handle_successful_optimization:
\*   Ok:  copy optimized over original, remove the backup, then
\*        remove_file(optimized_path);
\*   Err: copy the backup back over the original (result ignored), remove
\*        the backup, return the error.
ReplaceSwap(f) ==
    /\ pc[f] = "swap"
    /\ LET original  == InPath(f)
           optimized == local[f].optimized_path
           backup    == BackupPath(original)
       IN  \E t \in now..MaxClock :
              /\ now' = t
              /\ \/ /\ Exists(fs, optimized)
                    /\ \E swapped \in CopyResults(fs, optimized, original, t) :
                          fs' = RemoveFile(RemoveFile(swapped, backup), optimized)
                    /\ local' = [local EXCEPT ![f].replaced = TRUE]
                    /\ pc' = [pc EXCEPT ![f] = "mark"]
                    /\ UNCHANGED <<result, hist>>
                 \/ /\ \E broken \in IF Exists(fs, optimized)
                                     THEN FailedCopyResults(fs, original, t)
                                     ELSE {fs} :
                       \E restored \in IF Exists(broken, backup)
                                       THEN CopyResults(broken, backup, original, t)
                                                \cup FailedCopyResults(broken, original, t)
                                       ELSE {broken} :
                          fs' = RemoveFile(restored, backup)
                    /\ Fail(f)
                    /\ UNCHANGED local
    /\ UNCHANGED <<envVars, tracker, encoder, cm, permits, pcMain, idx, joined, timedOut, stats,
                   ledgerFile>>

\* handle_insufficient_optimization: metadata(file_path), the ProcessedFile
\* of an untouched file, then copy the original to the resolved output path
\* (output directory, not dry run) or remove_file(optimized_path).
HandleInsufficient(f) ==
    /\ pc[f] = "discard"
    /\ IF Exists(fs, InPath(f))
       THEN LET len == fs[InPath(f)].data.size
                dst == PathResolver_get_output_path(InPath(f), config.input_base_dir, config)
            IN  IF config.output_set /\ ~config.dry_run
                THEN \E t \in now..MaxClock :
                        /\ now' = t
                        /\ \/ /\ fs' \in CopyResults(fs, InPath(f), dst, t)
                              /\ local' = [local EXCEPT ![f].processed =
                                             ProcessedFile_new(fs[InPath(f)].mtime, len, len)]
                              /\ pc' = [pc EXCEPT ![f] = "mark"]
                              /\ UNCHANGED <<result, hist>>
                           \/ /\ fs' \in FailedCopyResults(fs, dst, t)
                              /\ Fail(f)
                              /\ UNCHANGED local
                ELSE /\ fs' = RemoveFile(fs, local[f].optimized_path)
                     /\ local' = [local EXCEPT ![f].processed =
                                    ProcessedFile_new(fs[InPath(f)].mtime, len, len)]
                     /\ pc' = [pc EXCEPT ![f] = "mark"]
                     /\ UNCHANGED <<result, hist, now>>
       ELSE /\ Fail(f)
            /\ UNCHANGED <<fs, local, now>>
    /\ UNCHANGED <<envVars, tracker, encoder, cm, permits, pcMain, idx, joined, timedOut, stats,
                   ledgerFile>>

\* "kept" or "discarded", for a task that went through the whole pipeline
Outcome(f) == IF local[f].decision = "keep" THEN "kept" ELSE "discarded"

\* Output directory: nothing is recorded; Ok(Some(processed_file)).
ReturnProcessed_marking(f) ==
    /\ pc[f] = "mark"
    /\ config.output_set
    /\ ledgerFile' = insert_processed(ledgerFile, InPath(f), local[f].processed)
    /\ result' = [result EXCEPT ![f] = "optimized"]
    /\ hist' = [hist EXCEPT ![run][f].outcome = Outcome(f)]
    /\ pc' = [pc EXCEPT ![f] = "completing"]
    /\ UNCHANGED <<envVars, tracker, encoder, cm, permits, pcMain, idx, joined, timedOut, stats,
                   fs, local, now>>
ReturnProcessed(f) ==
    /\ pc[f] = "mark"
    /\ config.output_set
    /\ result' = [result EXCEPT ![f] = "optimized"]
    /\ hist' = [hist EXCEPT ![run][f].outcome = Outcome(f)]
    /\ pc' = [pc EXCEPT ![f] = "completing"]
    /\ UNCHANGED <<envVars, tracker, encoder, cm, permits, pcMain, idx, joined, timedOut, stats,
                   fs, ledgerFile, local, now>>

\* In place: StateManager::new reads the whole ledger file ...
MarkLoad(f) ==
    /\ pc[f] = "mark"
    /\ ~config.output_set
    /\ local' = [local EXCEPT ![f].loaded = from_str(ledgerFile)]
    /\ pc' = [pc EXCEPT ![f] = "save"]
    /\ UNCHANGED <<envVars, tracker, encoder, cm, permits, pcMain, idx, joined, result, timedOut, stats,
                   fs, ledgerFile, now, hist>>

\* A task that records nothing in a dry run.
MarkSave_unless_dry_run(f) ==
    /\ pc[f] = "save"
    /\ \/ /\ ledgerFile' = IF config.dry_run THEN ledgerFile
                           ELSE insert_processed(local[f].loaded, InPath(f),
                                                 local[f].processed)
          /\ result' = [result EXCEPT ![f] = "optimized"]
          /\ hist' = [hist EXCEPT ![run][f].outcome = Outcome(f)]
          /\ pc' = [pc EXCEPT ![f] = "completing"]
       \/ /\ Fail(f)
          /\ UNCHANGED ledgerFile
    /\ local' = [local EXCEPT ![f].loaded = EmptyLedger]
    /\ UNCHANGED <<envVars, tracker, encoder, cm, permits, pcMain, idx, joined, timedOut, stats,
                   fs, now>>

\* ... and mark_processed inserts the record into what was read and writes
\* the whole file back (save); a failed write is this file's error.  The
\* StateManager is dropped on return.
MarkSave(f) ==
    /\ pc[f] = "save"
    /\ \/ /\ ledgerFile' = insert_processed(local[f].loaded, InPath(f), local[f].processed)
          /\ result' = [result EXCEPT ![f] = "optimized"]
          /\ hist' = [hist EXCEPT ![run][f].outcome = Outcome(f)]
          /\ pc' = [pc EXCEPT ![f] = "completing"]
       \/ /\ Fail(f)
          /\ UNCHANGED ledgerFile
    /\ local' = [local EXCEPT ![f].loaded = EmptyLedger]
    /\ UNCHANGED <<envVars, tracker, encoder, cm, permits, pcMain, idx, joined, timedOut, stats,
                   fs, now>>

(***************************************************************************)
(* The program is executed again over the same directory, with the same    *)
(* configuration: everything but the disk starts afresh.                   *)
(***************************************************************************)
NextRun ==
    /\ pcMain = "done"
    /\ run < MaxRuns
    /\ run' = run + 1
    /\ pcMain' = "start"
    /\ cm' = ConcurrencyManager_new(config.workers)
    /\ permits' = [f \in FileIds |-> NoPermits]
    /\ idx' = 1
    /\ joined' = 0
    /\ pc' = [f \in FileIds |-> "unscheduled"]
    /\ result' = [f \in FileIds |-> "none"]
    /\ timedOut' = [f \in FileIds |-> FALSE]
    /\ stats' = OptimizationStats_new
    /\ local' = [f \in FileIds |-> NoLocal]
    /\ tracker' = ProgressTracker_new
    /\ state_manager' = StateManager_new(ledgerFile)
    /\ events' = <<>>
    /\ UNCHANGED <<config, files, file_sizes, discovered, dependencies, call, stop_channel, encoder,
                   fs, ledgerFile, now, hist>>

NextPipeline ==
    \/ StartRun
    \/ AcquireAndSpawn
    \/ LaunchDone
    \/ \E f \in FileIds : GetFileInfo(f)
    \/ \E f \in FileIds : ShouldSkip(f)
    \/ \E f \in FileIds : OptimizeFile(f)
    \/ \E f \in FileIds : MeasureAndDecide(f)
    \/ \E f \in FileIds : HandleSuccessful(f)
    \/ \E f \in FileIds : HandleInsufficient(f)
    \/ \E f \in FileIds : TaskTimesOut(f)
    \/ \E f \in FileIds : TaskDropsPermit(f)
    \/ JoinTask
    \/ FinalReport

NextInPlace ==
    \/ NextPipeline
    \/ \E f \in FileIds : ReplaceSwap(f)
    \/ \E f \in FileIds : MarkLoad(f)
    \/ \E f \in FileIds : MarkSave(f)

NextRerun ==
    \/ NextInPlace
    \/ NextRun

NextOutDir ==
    \/ NextPipeline
    \/ \E f \in FileIds : ReturnProcessed(f)
    \/ NextRun

SpecInPlace == InitInPlace /\ [][NextInPlace]_vars
SpecConcurrent == InitConcurrent /\ [][NextInPlace]_vars
SpecRerun == InitRerun /\ [][NextRerun]_vars
SpecOutDir == InitOutDir /\ [][NextOutDir]_vars

NextStartup ==
    \/ MediaOptimizer_new
    \/ CheckDependenciesFails
    \/ NextInPlace

SpecStartup == InitStartup /\ [][NextStartup]_vars

(***************************************************************************)
(* Properties of the scheduler (SpecSched).                                *)
(***************************************************************************)
\* C1: at no point are the encoders of two Large-class files running at the
\* same time, nor those of two Video-class files, whatever the results
\* (success, failure, timeout) of the other tasks.
C1_ClassExclusion ==
    \A f, g \in FileIds :
        (f # g /\ encoder[f] = "running" /\ encoder[g] = "running"
               /\ ClassOf(f) = ClassOf(g))
            => ClassOf(f) \notin {"Large", "Video"}

\* The task of a Large file timed out and its encoder is still running,
\* while the task of another Large file holds the Large permit and runs
\* its encoder.
C1_Witness ==
    \E f, g \in FileIds :
        /\ f # g
        /\ ClassOf(f) = "Large" /\ ClassOf(g) = "Large"
        /\ timedOut[f] /\ encoder[f] = "running"
        /\ permits[g].class = "Large" /\ pc[g] = "encoding"

\* C10: with worker budget N, at most N Small-class tasks and at most
\* max(1, N div 2) Medium-class tasks hold a run permit at any moment.
C10_SmallMediumBudget ==
    /\ Cardinality({f \in FileIds : permits[f].class = "Small"}) <= config.workers
    /\ Cardinality({f \in FileIds : permits[f].class = "Medium"})
          <= IF config.workers \div 2 >= 1 THEN config.workers \div 2 ELSE 1

\* With N = 2 one Medium task holds the only Medium permit and the launch
\* loop waits with the next Medium file.
C10_Witness ==
    /\ config.workers = 2
    /\ pcMain = "launch" /\ idx <= Len(discovered)
    /\ ClassOf(discovered[idx]) = "Medium"
    /\ cm.medium_semaphore = 0
    /\ \E f \in FileIds : permits[f].class = "Medium" /\ pc[f] = "running"

(***************************************************************************)
(* Properties of the in-place pipeline (SpecInPlace).                      *)
(***************************************************************************)
\* The task of f has gone through its commit step (kept or discarded) and
\* the step returned without error.
Committed(f) == pc[f] \in {"mark", "save"} \/ result[f] = "optimized"

\* The task of f decided to keep the result and its commit step is over,
\* with or without error (a timeout is not an outcome of the commit step).
KeepCommitOver(f) ==
    /\ local[f].decision = "keep"
    /\ ~timedOut[f]
    /\ \/ Committed(f)
       \/ result[f] = "error"

\* C2: after a run with dry-run enabled every input file still exists and
\* holds the bytes it had before the run.
C2_DryRunLeavesInputs ==
    (config.dry_run /\ pcMain = "done")
        => \A f \in FileIds :
              Exists(fs, InPath(f)) /\ fs[InPath(f)].data = OrigData(f)

\* A dry run has ended, a task returned Ok and its input file is gone.
C2_Witness ==
    /\ config.dry_run /\ pcMain = "done"
    /\ \E f \in FileIds : result[f] = "optimized" /\ ~Exists(fs, InPath(f))

\* C3: in place and not a dry run, once the commit step of a kept result is
\* over (Ok or Err) the original path exists and holds the original bytes
\* or the optimized bytes.
C3_CommitKeepsOriginal ==
    \A f \in FileIds :
        (~config.dry_run /\ KeepCommitOver(f))
            => /\ Exists(fs, InPath(f))
               /\ fs[InPath(f)].data.kind \in {"orig", "opt"}
               /\ fs[InPath(f)].data.of = f

\* replace_file returned Ok, the task returned Ok, and the original path no
\* longer exists.
C3_Witness ==
    \E f \in FileIds :
        /\ ~config.dry_run /\ local[f].replaced /\ result[f] = "optimized"
        /\ ~Exists(fs, InPath(f))

\* C4: in place, once a result is discarded the encoder's output is gone
\* and the original still exists with the bytes it had before the task.
C4_DiscardLeavesOriginal ==
    \A f \in FileIds :
        (local[f].decision = "discard" /\ Committed(f))
            => /\ Exists(fs, InPath(f))
               /\ fs[InPath(f)].data = OrigData(f)
               /\ (local[f].optimized_path # InPath(f)
                      => ~Exists(fs, local[f].optimized_path))

\* A result was discarded, the task returned Ok, and the original path no
\* longer exists.
C4_Witness ==
    \E f \in FileIds :
        /\ local[f].decision = "discard" /\ result[f] = "optimized"
        /\ ~Exists(fs, InPath(f))

RecordMatches(f) ==
    /\ InPath(f) \in DOMAIN ledgerFile
    /\ Exists(fs, InPath(f))
    /\ ledgerFile[InPath(f)].modified_time = fs[InPath(f)].mtime

\* C6: in place, the skip check skips a file exactly when the ledger holds
\* a record for its path whose modified_time equals the file's; otherwise
\* (no record, or a modified_time before or after the file's) the file goes
\* on to the encoder.  A skipped file is not encoded and not touched.
C6_SkipIffRecordMatches ==
    /\ [] (\A f \in FileIds :
              result[f] = "skipped"
                 => /\ ~hist[run][f].encoded
                    /\ Exists(fs, InPath(f))
                    /\ fs[InPath(f)] = [data |-> OrigData(f), mtime |-> local[f].modified_time])
    /\ [][\A f \in FileIds :
              (pc[f] = "skipcheck" /\ pc'[f] # "skipcheck" /\ ~timedOut'[f])
                 => /\ (result'[f] = "skipped") <=> RecordMatches(f)
                    /\ RecordMatches(f) => pc'[f] = "completing"
                    /\ ~RecordMatches(f) => pc'[f] = "optimize"]_vars

\* A record exists whose modified_time differs from the file's, and the
\* file has been sent to the encoder.
C6_Witness ==
    \E f \in FileIds :
        /\ InPath(f) \in DOMAIN ledgerFile
        /\ ledgerFile[InPath(f)].modified_time # local[f].modified_time
        /\ pc[f] = "optimize"

(***************************************************************************)
(* Property of concurrent ledger writes (SpecConcurrent).                  *)
(***************************************************************************)
\* C9: once all tasks have settled, the persisted ledger holds a record for
\* every file whose task completed the pipeline without error.
C9_NoLostRecord ==
    pcMain = "done"
        => \A f \in FileIds : result[f] = "optimized" => InPath(f) \in DOMAIN ledgerFile

\* Every task returned Ok, every file is still there, and the ledger lacks
\* the record of one of them.
C9_Witness ==
    /\ pcMain = "done"
    /\ \A f \in FileIds : result[f] = "optimized" /\ Exists(fs, InPath(f))
    /\ \E f \in FileIds : InPath(f) \notin DOMAIN ledgerFile

(***************************************************************************)
(* Properties of successive executions (SpecRerun, SpecOutDir).            *)
(***************************************************************************)
\* C7: in place, run twice with no outside modification: a file whose task
\* completed the pipeline in the first run (kept or discarded) has, after
\* that run, a record whose modified_time is the file's modification time,
\* and is not encoded again in the second run.
C7_NoRedoneWork ==
    \A f \in FileIds :
        hist[1][f].outcome \in {"kept", "discarded"}
            => /\ (run = 1 /\ pcMain = "done" /\ Exists(fs, InPath(f)))
                     => RecordMatches(f)
               /\ ~hist[2][f].encoded

\* The first run replaced the file and recorded it; the second run, finding
\* a record whose modified_time is not the file's, has encoded it again.
C7_Witness ==
    \E f \in FileIds :
        /\ run = 2
        /\ hist[1][f].outcome = "kept"
        /\ hist[2][f].encoded
        /\ InPath(f) \in DOMAIN ledgerFile

\* C8: output directory with keep_processed, the same job run twice: in
\* the second run every file the first run completed is skipped, without
\* reaching the encoder (so the output tree stays as the first run left it).
C8_KeepExistingIdempotent ==
    (config.keep_processed /\ ~config.dry_run)
        => \A f \in FileIds :
              hist[1][f].outcome \in {"kept", "discarded"}
                 => /\ ~hist[2][f].encoded
                    /\ hist[2][f].outcome \in {"kept", "discarded", "skipped"}
                          => hist[2][f].outcome = "skipped"

\* The media directory was given as a relative path; the first run kept the
\* result of a file, and the second run has encoded the file again.
C8_Witness ==
    /\ config.keep_processed /\ ~config.dry_run
    /\ config.input_base_dir = <<"media">>
    /\ \E f \in FileIds : hist[1][f].outcome = "kept" /\ hist[2][f].encoded

(***************************************************************************)
(* Further properties of the scheduler (SpecSched, SpecSchedFair).         *)
(***************************************************************************)
\* The position of file f in the launch order.
Position(f) == CHOOSE i \in 1..Len(discovered) : discovered[i] = f

\* The Small and Medium tasks launched after the Large task f was: the launch
\* loop is sequential, so these started while f held its permits.
StartedAfter(f) ==
    {g \in FileIds : /\ ClassOf(g) \in {"Small", "Medium"}
                     /\ Position(g) > Position(f)
                     /\ pc[g] # "unscheduled"}

\* C11: while a Large task runs holding k permits drained from the global
\* pool of size N, at most N - k Small or Medium tasks start; with k = N
\* none starts until the Large task ends.
C11_LargeBlocksNewcomers ==
    \A f \in FileIds :
        (permits[f].class = "Large" /\ pc[f] \in BodyPcs)
            => Cardinality(StartedAfter(f)) <= config.workers - permits[f].global

\* A Large task runs holding every global permit, and a Small task launched
\* after it runs as well.
C11_Witness ==
    \E f, g \in FileIds :
        /\ permits[f].class = "Large" /\ pc[f] \in BodyPcs
        /\ permits[f].global = config.workers
        /\ ClassOf(g) = "Small" /\ Position(g) > Position(f)
        /\ pc[g] \in BodyPcs

\* The tasks that hold the Video permit.
VideoHolders == {f \in FileIds : permits[f].class = "Video"}

Held(sem) ==
    IF sem = "global_large_block"
    THEN LET RECURSIVE Sum(_)
             Sum(S) == IF S = {} THEN 0
                       ELSE LET f == CHOOSE x \in S : TRUE
                            IN  permits[f].global + Sum(S \ {f})
         IN  Sum(FileIds)
    ELSE Cardinality({f \in FileIds :
                        permits[f].class # "none" /\ SemaphoreOf(permits[f].class) = sem})

Pools == {"small_semaphore", "medium_semaphore", "large_semaphore",
          "video_semaphore", "global_large_block"}

\* C13: every permit acquired for a file is released when its task ends,
\* however it ends: no permit is lost or duplicated (available + held is the
\* initial size of each pool), a settled task holds nothing, and once all
\* tasks have settled every pool is back to its initial number of permits.
C13_PermitsReleased ==
    /\ \A sem \in Pools :
          cm[sem] + Held(sem) = ConcurrencyManager_new(config.workers)[sem]
    /\ \A f \in FileIds : pc[f] = "settled" => permits[f] = NoPermits
    /\ (\A f \in FileIds : pc[f] = "settled")
          => cm = ConcurrencyManager_new(config.workers)

\* All tasks have settled, one of them a Large task that timed out after
\* draining the global pool, another one that failed.
C13_Witness ==
    /\ \A f \in FileIds : pc[f] = "settled"
    /\ \E f, g \in FileIds :
          /\ ClassOf(f) = "Large" /\ timedOut[f]
          /\ ~timedOut[g] /\ result[g] = "error"

\* C14: the final report is produced only after every launched task has
\* settled: when process_files_concurrently has returned its statistics,
\* every file of the run has been launched, no task is waiting or running,
\* and the statistics count every one of them.
C14_ReportAfterAllSettled ==
    pcMain = "done" =>
        /\ idx > Len(discovered)
        /\ \A i \in 1..Len(discovered) : pc[discovered[i]] = "settled"
        /\ joined = Len(discovered)
        /\ stats.files_processed = Len(discovered)

\* The report has been produced for a run with a task that timed out and
\* one that succeeded.
C14_Witness ==
    /\ pcMain = "done"
    /\ \E f, g \in FileIds : timedOut[f] /\ result[g] = "optimized"

JoinedWith(res) == {i \in 1..joined : result[discovered[i]] = res}

\* C16: an error of one file is caught at its task's boundary.  It adds
\* exactly one to the error count (and nothing to the other counts), a task
\* that timed out is such an error, and the run goes on: as long as the
\* statistics have not been returned some step can be taken, and they are
\* returned only with every file settled and counted.
C16_ErrorsCountedNotFatal ==
    /\ stats.errors = Cardinality(JoinedWith("error"))
    /\ stats.files_optimized = Cardinality(JoinedWith("optimized"))
    /\ stats.files_skipped = Cardinality(JoinedWith("skipped"))
    /\ \A f \in FileIds : timedOut[f] => result[f] = "error"
    /\ ((\E f \in FileIds : result[f] = "error") /\ pcMain # "done")
          => ENABLED NextSched
    /\ ((\E f \in FileIds : result[f] = "error") /\ pcMain = "done")
          => /\ \A f \in FileIds : pc[f] = "settled" /\ result[f] # "none"
             /\ stats.files_processed = Len(discovered)

\* The run is over: the first file failed without a timeout, the second was
\* optimized, and the statistics count one error and one optimized file.
C16_Witness ==
    /\ pcMain = "done"
    /\ stats.errors = 1 /\ stats.files_optimized = 1
    /\ result[1] = "error" /\ ~timedOut[1]
    /\ result[2] = "optimized"

(***************************************************************************)
(* Properties of the start of a run (SpecStartup).                         *)
(***************************************************************************)
\* Nothing has been scheduled or modified: no permit is held, no task was
\* launched, no encoder ran, and the media files and the ledger are as they
\* were before the program started.
NothingTouched ==
    /\ \A f \in FileIds :
          /\ pc[f] = "unscheduled"
          /\ permits[f] = NoPermits
          /\ encoder[f] = "idle"
          /\ ~hist[run][f].encoded
    /\ idx = 1
    /\ \A sem \in Pools : Held(sem) = 0
    /\ DOMAIN fs = {InPath(f) : f \in FileIds}
    /\ \A f \in FileIds : fs[InPath(f)] = [data |-> OrigData(f), mtime |-> 1]
    /\ ledgerFile = StaleLedger

\* C17: when the configuration is one to reject (no worker, or a size
\* threshold outside (0, 1]) or an external tool is missing, the run never
\* gets past its start: it ends with an error before any permit is
\* acquired, any encoder invoked, or any media file or ledger record
\* modified.
C17_RunLevelErrorsAbortFirst ==
    LET rejected == \/ config.workers < 1
                    \/ config.size_threshold.num <= 0
                    \/ config.size_threshold.num > config.size_threshold.den
    IN  /\ (rejected \/ dependencies = "missing")
              => pcMain \in {"new", "start", "aborted"} /\ NothingTouched
        /\ pcMain = "aborted"
              => (rejected \/ dependencies = "missing") /\ NothingTouched

\* The run was aborted by the dependency check, after a valid configuration
\* built the ConcurrencyManager.
C17_Witness ==
    /\ pcMain = "aborted"
    /\ config.workers = 1 /\ config.size_threshold = DefaultThreshold
    /\ dependencies = "missing"
    /\ cm = ConcurrencyManager_new(config.workers)

(***************************************************************************)
(* Further properties of the pipeline in place (SpecInPlace).              *)
(***************************************************************************)
\* C18: a task whose timeout expired is a failed task: its result is an
\* error, never optimized or skipped, and the expiry writes no ledger record
\* for the file (in place nothing is copied to an output path either: there
\* is none).
C18_TimeoutIsFailure ==
    /\ [](\A f \in FileIds :
            timedOut[f] => result[f] = "error" /\ hist[run][f].outcome = "error")
    /\ [][\A f \in FileIds : TaskTimesOut(f) => ledgerFile' = ledgerFile]_vars

\* The task timed out while the ledger write was in flight: it is counted as
\* an error, and the ledger holds the record of its file.
C18_Witness ==
    \E f \in FileIds :
        /\ timedOut[f] /\ result[f] = "error"
        /\ ledgerFile = insert_processed(EmptyLedger, InPath(f), local[f].processed)
        /\ local[f].processed # NoRecord

\* C19: replace_file is backup, swap, delete backup, and a failure at any
\* step restores the original: whenever replace_file returns an error, the
\* original path holds the bytes it held before the call.
C19_FailedReplaceRestores ==
    [][\A f \in FileIds :
          (/\ HandleSuccessful(f) \/ ReplaceSwap(f)
           /\ ~config.dry_run
           /\ Exists(fs, InPath(f))
           /\ result'[f] = "error")
             => /\ Exists(fs', InPath(f))
                /\ fs'[InPath(f)].data = fs[InPath(f)].data]_vars

\* replace_file has returned an error and the original path holds a
\* half-written file, with no backup left.
C19_Witness ==
    \E f \in FileIds :
        /\ local[f].decision = "keep" /\ ~local[f].replaced
        /\ result[f] = "error" /\ ~timedOut[f]
        /\ Exists(fs, InPath(f)) /\ fs[InPath(f)].data = PartialData
        /\ ~Exists(fs, BackupPath(InPath(f)))

(***************************************************************************)
(* Further properties of the pipeline with an output directory             *)
(* (SpecOutDir).                                                           *)
(***************************************************************************)
\* The output location PathResolver resolves for file f.
OutputLocation(f) == PathResolver_get_output_path(InPath(f), config.input_base_dir, config)

\* C20: with an output directory and not in a dry run, once the task of a
\* file has returned with its result discarded, the resolved output
\* location exists and holds the bytes of the original file; and every file
\* whose task returned without error has a file at its output location.
C20_DiscardCopiesOriginal ==
    \A f \in FileIds :
        (~config.dry_run /\ pc[f] \in {"completing", "settled"})
           => /\ hist[run][f].outcome = "discarded"
                 => /\ Exists(fs, OutputLocation(f))
                    /\ fs[OutputLocation(f)].data = OrigData(f)
              /\ hist[run][f].outcome \in {"kept", "discarded", "skipped"}
                 => Exists(fs, OutputLocation(f))

\* The media directory was given as a relative path; the result of an image
\* was discarded and the file at its output location holds the encoder's
\* bytes, as does the original path.
C20_Witness ==
    \E f \in FileIds :
        /\ ~config.dry_run /\ ~IsAbsolute(config.input_base_dir)
        /\ run = 1 /\ pc[f] = "settled" /\ hist[1][f].outcome = "discarded"
        /\ Exists(fs, OutputLocation(f)) /\ fs[OutputLocation(f)].data.kind = "opt"
        /\ fs[InPath(f)].data.kind = "opt"

(***************************************************************************)
(* One execution with an output directory, for every threshold.            *)
(***************************************************************************)
InitOutDirOnce ==
    /\ \E d \in BOOLEAN, b \in {MediaDir, <<"media">>}, t \in Thresholds :
          InitPipe([ json_output |-> FALSE, jpeg_quality |-> 80, webp_quality |-> 80, video_crf |-> 26,
                     workers |-> 1, output_set |-> TRUE, output_path |-> OutDir,
                     dry_run |-> d, keep_processed |-> FALSE,
                     convert_to_webp |-> FALSE, size_threshold |-> t,
                     input_base_dir |-> b ], NumPipeFiles)
    /\ ledgerFile = EmptyLedger
    /\ state_manager = StateManager_new(ledgerFile)

NextOutDirOnce ==
    \/ NextPipeline
    \/ \E f \in FileIds : ReturnProcessed(f)

SpecOutDirOnce == InitOutDirOnce /\ [][NextOutDirOnce]_vars

\* The task of f went through the encoder and returned Ok(Some(..)).
EncodedAndReturned(f) ==
    /\ pc[f] \in {"completing", "settled"}
    /\ hist[run][f].outcome \in {"kept", "discarded"}

InitApplied(cfg, c) ==
    /\ config = cfg
    /\ call = c
    /\ files = <<>>
    /\ file_sizes = <<>>
    /\ discovered = <<>>
    /\ cm = NoConcurrencyManager
    /\ permits = <<>>
    /\ pcMain = "idle"
    /\ idx = 1
    /\ joined = 0
    /\ pc = <<>>
    /\ result = <<>>
    /\ timedOut = <<>>
    /\ encoder = <<>>
    /\ stats = OptimizationStats_new
    /\ ledgerFile = EmptyLedger
    /\ local = <<>>
    /\ now = 1
    /\ run = 1
    /\ hist = <<>>
    /\ dependencies = "ok"
    /\ tracker = ProgressTracker_new
    /\ stop_channel = [sent |-> 0]
    /\ state_manager = NoStateManager
    /\ events = <<>>

Returns(v) ==
    /\ ~call.done
    /\ call' = [call EXCEPT !.ret = v, !.done = TRUE]
    /\ UNCHANGED <<config, files, file_sizes, discovered, run, dependencies, schedVars,
                   tracker, stop_channel, state_manager, events, encoder, fs, ledgerFile, local,
                   now, hist>>

\* PathResolver::get_output_path for canonical input paths inside and
\* outside the media directory, which is given canonically or not.
ResolveDirs ==
    { <<"/", "media">>, <<"/", "media", "sub">>, <<"/", "other">>, <<"/", "other", "sub">> }
ResolveBases == { MediaDir, <<"media">>, <<"/", "other", "sub">> }
ResolveExts == {"jpg", "png", "mov"}

InitPathResolver ==
    \E dir \in ResolveDirs, stem \in {"a", "b"}, ext \in ResolveExts,
       b \in ResolveBases, w \in BOOLEAN, o \in BOOLEAN :
        InitApplied([ json_output |-> FALSE, jpeg_quality |-> 80, webp_quality |-> 80, video_crf |-> 26,
                      workers |-> 1, output_set |-> o, output_path |-> OutDir,
                      dry_run |-> FALSE, keep_processed |-> FALSE,
                      convert_to_webp |-> w, size_threshold |-> DefaultThreshold,
                      input_base_dir |-> b ],
                    [ fn |-> "get_output_path",
                      args |-> [input_path |-> [dir |-> dir, stem |-> stem, ext |-> ext]],
                      ret |-> NoPath, done |-> FALSE ])
        /\ fs = [p \in {} |-> 0]

ApplyGetOutputPath ==
    /\ call.fn = "get_output_path"
    /\ Returns(PathResolver_get_output_path(call.args.input_path,
                                            config.input_base_dir, config))

SpecPathResolver == InitPathResolver /\ [][ApplyGetOutputPath]_vars

\* The input path is not below the canonical media directory.
OutsideRoot == ~IsPrefix(canonicalize(config.input_base_dir), call.args.input_path.dir)

\* C22: with an output directory, the path resolved for a file whose
\* canonical path is not below the canonical media directory is
\* <output>/<name of the file's parent directory>/<stem>.<output extension>.
C22_FallbackUnderOutputRoot ==
    (call.fn = "get_output_path" /\ call.done /\ config.output_set /\ OutsideRoot)
       => LET input_path == call.args.input_path
              parent     == input_path.dir[Len(input_path.dir)]
          IN  call.ret = [dir  |-> canonicalize(config.output_path) \o <<parent>>,
                          stem |-> input_path.stem,
                          ext  |-> get_output_extension(input_path.ext, config)]

\* The path resolved for an image outside the media directory that keeps
\* its extension is the image's own path, which is not below the output
\* directory.
C22_Witness ==
    /\ call.fn = "get_output_path" /\ call.done /\ config.output_set /\ OutsideRoot
    /\ call.ret = call.args.input_path
    /\ ~IsPrefix(canonicalize(config.output_path), call.ret.dir)

(***************************************************************************)
(* StateManager::new: the ledger file of a media directory.                *)
(***************************************************************************)
\* Path::to_string_lossy: the path as it was typed
RECURSIVE to_string_lossy(_)
to_string_lossy(d) ==
    IF d = <<>> THEN ""
    ELSE IF Len(d) = 1 THEN d[1]
    ELSE IF d[1] = "/" THEN "/" \o to_string_lossy(Tail(d))
    ELSE d[1] \o "/" \o to_string_lossy(Tail(d))

\* The first 16 hex digits of the SHA-256 of a string: distinct strings of
\* the model have distinct digests.
Sha256Prefix(s) == <<"sha256", s>>

\* state_dir.join("processed_files_<hash>.json")
state_file_path(media_dir) ==
    [dir |-> <<"~", ".media-optimizer">>, stem |-> "processed_files",
     hash |-> Sha256Prefix(to_string_lossy(media_dir)), ext |-> "json"]

\* Ways of naming a media directory on the command line (working directory
\* /, /link a symbolic link to /media).
RootNames ==
    { MediaDir, <<"media">>, <<".", "media">>, <<"/", "media", ".">>, LinkPath,
      <<"/", "other">>, <<"other">>, <<".", "other">> }

InitStateManager ==
    \E first \in RootNames, second \in RootNames :
        InitApplied([ json_output |-> FALSE, jpeg_quality |-> 80, webp_quality |-> 80, video_crf |-> 26,
                      workers |-> 1, output_set |-> FALSE, output_path |-> OutDir,
                      dry_run |-> FALSE, keep_processed |-> FALSE,
                      convert_to_webp |-> FALSE, size_threshold |-> DefaultThreshold,
                      input_base_dir |-> first ],
                    [ fn |-> "StateManager_new",
                      args |-> [first |-> first, second |-> second],
                      ret |-> <<>>, done |-> FALSE ])
        /\ fs = [p \in {} |-> 0]

\* Two executions build their StateManager, each from the directory it was
\* given.
ApplyStateManagerNew ==
    /\ call.fn = "StateManager_new"
    /\ Returns([first  |-> state_file_path(call.args.first),
                second |-> state_file_path(call.args.second)])

SpecStateManager == InitStateManager /\ [][ApplyStateManagerNew]_vars

\* C23: two executions that name the same directory (the same canonical
\* path) use the same ledger file.
C23_SameRootSameLedger ==
    (call.fn = "StateManager_new" /\ call.done)
       => (canonicalize(call.args.first) = canonicalize(call.args.second)
              => call.ret.first = call.ret.second)

\* The same directory named by two different strings has two ledger files.
C23_Witness ==
    /\ call.fn = "StateManager_new" /\ call.done
    /\ call.args.first # call.args.second
    /\ canonicalize(call.args.first) = canonicalize(call.args.second)
    /\ call.ret.first # call.ret.second

(***************************************************************************)
(* One execution with an output directory over a directory an earlier      *)
(* in-place execution has left a ledger for; the output directory is empty *)
(* or holds the output of the first file already.                          *)
(***************************************************************************)
LedgerBefore == insert_processed(StaleLedger, InPath(1), ProcessedFile_new(1, 10, 9))

InitOutDirLedger ==
    /\ \E k \in BOOLEAN :
          InitMedia([ json_output |-> FALSE, jpeg_quality |-> 80, webp_quality |-> 80, video_crf |-> 26,
                      workers |-> 1, output_set |-> TRUE, output_path |-> OutDir,
                      dry_run |-> FALSE, keep_processed |-> k,
                      convert_to_webp |-> FALSE, size_threshold |-> DefaultThreshold,
                      input_base_dir |-> MediaDir ], NumPipeFiles)
    /\ cm = ConcurrencyManager_new(config.workers)
    /\ pcMain = "start"
    /\ dependencies = "ok"
    /\ \/ fs = OriginalFiles(NumPipeFiles)
       \/ fs = WriteFile(OriginalFiles(NumPipeFiles), OutputLocation(1), OptData(1, 5), 1)
    /\ ledgerFile \in {EmptyLedger, LedgerBefore}
    /\ state_manager = StateManager_new(ledgerFile)

SpecOutDirLedger == InitOutDirLedger /\ [][NextOutDirOnce]_vars

\* C24: with an output directory, once the run has passed its start-up
\* (discovery and the ledger's cleanup) no step changes the persisted
\* ledger, and a task skips its file only for keep_processed and an
\* existing output, whatever the ledger records about the file.
C24_LedgerUntouchedInOutputMode ==
    [][ /\ pcMain # "start" => ledgerFile' = ledgerFile
        /\ \A f \in FileIds :
              (result[f] # "skipped" /\ result'[f] = "skipped")
                 => /\ config.keep_processed
                    /\ Exists(fs, OutputLocation(f)) ]_vars

\* The ledger holds a record of the file with its current modification
\* time; the file was encoded all the same, its task returned a result, and
\* the finished run has left the ledger at what the start-up made of it.
C24_Witness ==
    \E f \in FileIds :
        /\ pcMain = "done" /\ pc[f] = "settled"
        /\ is_processed(ledgerFile, InPath(f), local[f].modified_time)
        /\ hist[run][f].encoded /\ result[f] = "optimized"
        /\ ledgerFile = cleanup(LedgerBefore, fs)

\* C25: once the run has ended, the counters of the final report (the
\* OptimizationStats of the join loop) equal the counters of the
\* ProgressTracker, which the last progress event carried.
C25_ReportMatchesProgress ==
    (pcMain = "done" /\ discovered # <<>>)
       => /\ stats.files_optimized = tracker.files_optimized
          /\ stats.files_skipped = tracker.files_skipped
          /\ stats.errors = tracker.errors
          /\ stats.total_bytes_saved = tracker.bytes_saved

\* The run has ended and its one file was discarded: the tracker counted a
\* skipped file and no optimized one, the final report one optimized file
\* and no skipped one.
C25_Witness ==
    /\ pcMain = "done"
    /\ \E f \in FileIds : hist[run][f].outcome = "discarded" /\ result[f] = "optimized"
    /\ tracker.files_skipped = 1 /\ tracker.files_optimized = 0
    /\ stats.files_skipped = 0 /\ stats.files_optimized = 1
    /\ stats.total_bytes_saved = tracker.bytes_saved

\* C26: once a cancellation signal has been broadcast, no task gets past
\* the checkpoint before its encoder call: no encoder call is started.
C26_NoEncoderAfterCancel ==
    [][ stop_channel.sent > 0
           => \A f \in FileIds : ~(encoder[f] = "idle" /\ encoder'[f] = "running") ]_vars

\* Two signals were broadcast over a channel of capacity one (a receiver
\* would see the first as lagged), and a task that was still waiting for
\* its permit then has started its encoder all the same.
C26_Witness ==
    \E f \in FileIds :
        /\ stop_channel.sent = 2
        /\ encoder[f] = "running" /\ pc[f] = "encoding"
        /\ ~StopRequested(f)
        /\ try_recv([some |-> TRUE, next |-> 0], stop_channel) = "Lagged"

(***************************************************************************)
(* Config::validate applied to configurations at and around every limit.   *)
(***************************************************************************)
ValidateThresholds ==
    { [num |-> -1, den |-> 10], [num |-> 0, den |-> 10], [num |-> 1, den |-> 10],
      DefaultThreshold, [num |-> 10, den |-> 10], [num |-> 3, den |-> 2], NaN }

InitValidate ==
    \E jq \in {0, 1, 100, 101}, wq \in {0, 1, 100, 101}, crf \in {0, 51, 52},
       t \in ValidateThresholds, w \in StartupWorkers, o \in BOOLEAN,
       e \in {"none", "dir", "file"} :    \* what the output path holds
        /\ InitApplied([ json_output |-> FALSE, jpeg_quality |-> jq, webp_quality |-> wq, video_crf |-> crf,
                         workers |-> w, output_set |-> o, output_path |-> OutDir,
                         dry_run |-> FALSE, keep_processed |-> FALSE,
                         convert_to_webp |-> FALSE, size_threshold |-> t,
                         input_base_dir |-> MediaDir ],
                       [ fn |-> "validate", args |-> <<>>, ret |-> FALSE, done |-> FALSE ])
        /\ fs = IF e = "none" THEN [p \in {} |-> 0]
                ELSE [p \in {EntryOf(OutDir)} |->
                         [data |-> [kind |-> e, size |-> 0], mtime |-> 1]]

ApplyValidate ==
    /\ call.fn = "validate"
    /\ Returns(validate(config, fs))

SpecValidate == InitValidate /\ [][ApplyValidate]_vars

\* 0 < x <= 1 for an f64 x: a number of that interval
InUnitInterval(x) == x.den > 0 /\ 0 < x.num /\ x.num <= x.den

\* C27: validate accepts a configuration exactly when jpeg_quality and
\* webp_quality are in 1..100, video_crf is at most 51, size_threshold is a
\* number with 0 < size_threshold <= 1, workers is at least 1, and the
\* output path, when set, exists and is a directory.
C27_ValidateAcceptsExactlyValid ==
    (call.fn = "validate" /\ call.done)
       => (call.ret <=>
              /\ config.jpeg_quality \in 1..100
              /\ config.webp_quality \in 1..100
              /\ config.video_crf <= 51
              /\ InUnitInterval(config.size_threshold)
              /\ config.workers >= 1
              /\ config.output_set
                    => /\ Exists(fs, EntryOf(config.output_path))
                       /\ fs[EntryOf(config.output_path)].data.kind = "dir")

\* A configuration whose size_threshold is NaN, which is not in (0, 1], has
\* been accepted.
C27_Witness ==
    /\ call.fn = "validate" /\ call.done
    /\ IsNaN(config.size_threshold)
    /\ call.ret = TRUE

(***************************************************************************)
(* The launch loop over three files: one can hold the only permit of a     *)
(* pool, the next wait for it, and a third come after them.                *)
(***************************************************************************)
InitLaunch == InitSchedOf(NumLaunchFiles)

SpecLaunch == InitLaunch /\ [][NextSched]_vars

\* The launch loop has reached file f, whose class pool has no permit left.
WaitsForPermit(f) ==
    /\ pcMain = "launch"
    /\ idx <= Len(discovered)
    /\ discovered[idx] = f
    /\ cm[SemaphoreOf(ClassOf(f))] = 0

\* A step that launches the task of g.
Launches(g) == NextSched /\ pc[g] = "unscheduled" /\ pc'[g] = "running"

\* C28: while a file waits for a permit of an exhausted pool, a file later
\* in the list whose own pool has a free permit can be launched.
C28_WaitingBlocksOnlyItself ==
    \A f \in FileIds, g \in FileIds :
        ( /\ WaitsForPermit(f)
          /\ Position(g) > Position(f)
          /\ ClassOf(g) \in {"Small", "Medium"}
          /\ cm[SemaphoreOf(ClassOf(g))] > 0 )
           => ENABLED Launches(g)

\* A Video task holds the only Video permit, the loop waits with the second
\* Video file, and the Small file after it, whose pool has a free permit,
\* is not launched: no step launches it.
C28_Witness ==
    \E f \in FileIds, g \in FileIds :
        /\ WaitsForPermit(f) /\ ClassOf(f) = "Video"
        /\ Position(g) > Position(f)
        /\ ClassOf(g) = "Small" /\ cm.small_semaphore > 0
        /\ pc[g] = "unscheduled"
        /\ ~ENABLED Launches(g)

\* C29: in place, from the start of a task up to its replace step the
\* original's path is not written: the path the encoder has written to is
\* not the input path, and the file at the input path holds the original's
\* bytes.
C29_OriginalUnwrittenBeforeReplace ==
    \A f \in FileIds :
        (~config.output_set
           /\ pc[f] \in {"skipcheck", "optimize", "measure", "keep", "discard", "swap"})
           => /\ local[f].optimized_path # InPath(f)
              /\ Exists(fs, InPath(f))
              /\ fs[InPath(f)].data = OrigData(f)

\* In place, an image that keeps its extension: the encoder has returned,
\* the path it wrote to is the input path, and the file there holds the
\* encoder's bytes before any replace step has run.
C29_Witness ==
    \E f \in FileIds :
        /\ ~config.output_set /\ ~config.convert_to_webp /\ is_image(files[f].ext)
        /\ pc[f] = "measure"
        /\ local[f].optimized_path = InPath(f)
        /\ fs[InPath(f)].data.kind = "opt"
        /\ ~local[f].replaced

(***************************************************************************)
(* The class, the permit pool and the timeout of one file, for extensions  *)
(* of both media kinds and sizes at and around the class limits.           *)
(***************************************************************************)
ClassifySizes == {0, MB_5 - 1, MB_5, MB_5 + 1, MB_20 - 1, MB_20, MB_20 + 1}

InitClassify ==
    \E ext \in {"jpg", "png", "webp", "mp4", "mov"}, size \in ClassifySizes,
       w \in WorkerBudgets :
        /\ InitApplied([ json_output |-> FALSE, jpeg_quality |-> 80, webp_quality |-> 80, video_crf |-> 26,
                         workers |-> w, output_set |-> FALSE, output_path |-> OutDir,
                         dry_run |-> FALSE, keep_processed |-> FALSE,
                         convert_to_webp |-> FALSE, size_threshold |-> DefaultThreshold,
                         input_base_dir |-> MediaDir ],
                       [ fn |-> "acquire_permits", args |-> [ext |-> ext, size |-> size],
                         ret |-> <<>>, done |-> FALSE ])
        /\ fs = [p \in {} |-> 0]

\* acquire_permits chooses the semaphore and the spawned task its timeout,
\* both from the file's path and its pre-computed size.
ApplyClassify ==
    /\ call.fn = "acquire_permits"
    /\ LET class == PermitClass(call.args.ext, call.args.size)
       IN  Returns([ class   |-> class,
                     pool    |-> SemaphoreOf(class),
                     timeout |-> timeout_duration(call.args.ext, call.args.size) ])

SpecClassify == InitClassify /\ [][ApplyClassify]_vars

PastStartup ==
    \/ pcMain \in {"launch", "drain", "join", "done"}
    \/ \E f \in FileIds : pc[f] # "unscheduled"

\* C31: cleanup of the ledger is called exactly once in a run, before the
\* first task is spawned (so before any skip check and any write of the
\* ledger by a task), and never again while the run goes on: once the run is
\* past its start-up one cleanup has completed, the record of the path that
\* no longer exists is gone from the persisted ledger, and no second
\* cleanup ever completes.
C31_CleanupOnceAtStart ==
    /\ state_manager.cleanups <= 1
    /\ PastStartup
          => /\ state_manager.cleanups = 1
             /\ GonePath \notin DOMAIN ledgerFile
             /\ GonePath \notin DOMAIN state_manager.state

\* A task has checked the ledger, encoded its file and written its record
\* to the ledger, and the run has ended: one cleanup, which removed the
\* stale record before the task read the ledger.
C31_Witness ==
    \E f \in FileIds :
        /\ pcMain = "done" /\ pc[f] = "settled"
        /\ result[f] = "optimized"
        /\ InPath(f) \in DOMAIN ledgerFile
        /\ GonePath \notin DOMAIN ledgerFile
        /\ state_manager.cleanups = 1

(***************************************************************************)
(* The two computations of an image's output path, for the same arguments: *)
(* the encoder's (ImageProcessor::optimize) and the resolver's (the skip   *)
(* check, the copy of the original, the timeout copy).                     *)
(***************************************************************************)
ImagePathExts == {"jpg", "png", "webp"}

InitImagePath ==
    \E dir \in ResolveDirs, stem \in {"a", "b"}, ext \in ImagePathExts,
       b \in ResolveBases, w \in BOOLEAN, o \in BOOLEAN :
        /\ InitApplied([ json_output |-> FALSE, jpeg_quality |-> 80, webp_quality |-> 80, video_crf |-> 26,
                         workers |-> 1, output_set |-> o, output_path |-> OutDir,
                         dry_run |-> FALSE, keep_processed |-> FALSE,
                         convert_to_webp |-> w, size_threshold |-> DefaultThreshold,
                         input_base_dir |-> b ],
                       [ fn |-> "image_output_paths",
                         args |-> [input_path |-> [dir |-> dir, stem |-> stem, ext |-> ext]],
                         ret |-> [encoder |-> NoPath, resolver |-> NoPath],
                         done |-> FALSE ])
        /\ fs = [p \in {} |-> 0]

\* ImageProcessor::optimize computes its output path with its own
\* get_output_path; TaskOptimizer::get_expected_output_path asks PathResolver.
ApplyImageOutputPaths ==
    /\ call.fn = "image_output_paths"
    /\ Returns([ encoder  |-> ImageProcessor_get_output_path(
                                  call.args.input_path, config.input_base_dir, config),
                 resolver |-> PathResolver_get_output_path(
                                  call.args.input_path, config.input_base_dir, config) ])

SpecImagePath == InitImagePath /\ [][ApplyImageOutputPaths]_vars

\* C32: for every image, media directory and configuration, the file the
\* image encoder writes (ImageProcessor::get_output_path) is the file
\* PathResolver::get_output_path resolves for the same arguments.
C32_EncoderPathIsResolvedPath ==
    (call.fn = "image_output_paths" /\ call.done)
       => call.ret.encoder = call.ret.resolver

\* With an output directory and the media directory given as a relative
\* path, the image below it is resolved to a path below the output
\* directory, while the encoder's path is the image's own path.
C32_Witness ==
    /\ call.fn = "image_output_paths" /\ call.done
    /\ config.output_set /\ ~config.convert_to_webp
    /\ config.input_base_dir = <<"media">>
    /\ call.args.input_path.dir = MediaDir
    /\ call.ret.resolver.dir = OutDir
    /\ call.ret.encoder = call.args.input_path

(***************************************************************************)
(* The scheduler with the smallest worker budget and as many files as the  *)
(* four pools have permits together.                                       *)
(***************************************************************************)
\* Number of files in the specification of the sum of the pools.
NumPoolFiles == 4

\* The orders in which files of the four classes, or two Small files and
\* no Large one, are discovered.
PoolOrders ==
    { fl \in [1..NumPoolFiles -> SchedMenu] :
         /\ \A i \in 1..NumPoolFiles : i > 4 => fl[i].size = MB_5 - 1 /\ fl[i].ext = "jpg"
         /\ \/ \A m \in SchedMenu : \E i \in 1..4 : fl[i] = m
            \/ /\ fl[1] = fl[2] /\ fl[1] = [ext |-> "jpg", size |-> MB_5 - 1]
               /\ fl[3] = [ext |-> "jpg", size |-> MB_5]
               /\ fl[4] = [ext |-> "mp4", size |-> MB_5 - 1] }

InitPools ==
    /\ config = [ json_output |-> FALSE, jpeg_quality |-> 80, webp_quality |-> 80, video_crf |-> 26,
                  workers |-> 1, output_set |-> FALSE, output_path |-> OutDir,
                  dry_run |-> FALSE, keep_processed |-> FALSE,
                  convert_to_webp |-> FALSE, size_threshold |-> DefaultThreshold,
                  input_base_dir |-> MediaDir ]
    /\ \E fl \in PoolOrders :
          files = [i \in 1..NumPoolFiles |->
                      [stem |-> Stems[i], ext |-> fl[i].ext, size |-> fl[i].size]]
    /\ file_sizes = [f \in 1..NumPoolFiles |-> files[f].size]
    /\ discovered = [i \in 1..NumPoolFiles |-> i]
    /\ cm = ConcurrencyManager_new(config.workers)
    /\ pcMain = "launch"
    /\ InitTasks(NumPoolFiles)
    /\ dependencies = "ok"
    /\ fs = [p \in {} |-> 0]
    /\ ledgerFile = EmptyLedger
    /\ now = 1
    /\ state_manager = StateManager_cleanup(StateManager_new(ledgerFile), fs)

SpecPools == InitPools /\ [][NextSched]_vars

\* The tasks that hold a run permit (the permit of their class pool).
RunPermitHolders == {f \in FileIds : permits[f].class # "none"}

NumProgressFiles == 2

\* What a task may have to report: a kept result, a discarded one (equal
\* sizes), a skipped file, an error.
Reports ==
    { [result |-> "optimized", processed |-> ProcessedFile_new(1, 10, 5)],
      [result |-> "optimized", processed |-> ProcessedFile_new(1, 10, 10)],
      [result |-> "skipped",   processed |-> NoRecord],
      [result |-> "error",     processed |-> NoRecord] }

InitProgress ==
    /\ config = [ json_output |-> TRUE, jpeg_quality |-> 80, webp_quality |-> 80,
                  video_crf |-> 26, workers |-> 4, output_set |-> FALSE,
                  output_path |-> OutDir, dry_run |-> FALSE, keep_processed |-> FALSE,
                  convert_to_webp |-> FALSE, size_threshold |-> DefaultThreshold,
                  input_base_dir |-> MediaDir ]
    /\ files = [i \in 1..NumProgressFiles |-> [stem |-> Stems[i], ext |-> "jpg", size |-> 10]]
    /\ file_sizes = [f \in 1..NumProgressFiles |-> 10]
    /\ discovered = [i \in 1..NumProgressFiles |-> i]
    /\ cm = [ConcurrencyManager_new(config.workers) EXCEPT
                !.small_semaphore = @ - NumProgressFiles]
    /\ permits = [f \in 1..NumProgressFiles |-> [class |-> "Small", global |-> 0]]
    /\ pcMain = "join"
    /\ idx = NumProgressFiles + 1
    /\ joined = 0
    /\ pc = [f \in 1..NumProgressFiles |-> "completing"]
    /\ \E rep \in [1..NumProgressFiles -> Reports] :
          /\ result = [f \in 1..NumProgressFiles |-> rep[f].result]
          /\ local = [f \in 1..NumProgressFiles |->
                         [NoLocal EXCEPT !.original_size = 10, !.modified_time = 1,
                                         !.processed = rep[f].processed]]
    /\ timedOut = [f \in 1..NumProgressFiles |-> FALSE]
    /\ encoder = [f \in 1..NumProgressFiles |-> "idle"]
    /\ stats = OptimizationStats_new
    /\ fs = OriginalFiles(NumProgressFiles)
    /\ ledgerFile = EmptyLedger
    /\ now = 1
    /\ run = 1
    /\ hist = [r \in 1..MaxRuns |-> [f \in 1..NumProgressFiles |-> NoHist]]
    /\ dependencies = "ok"
    /\ call = NoCall
    /\ tracker = ProgressTracker_new
    /\ stop_channel = [sent |-> 0]
    /\ state_manager = StateManager_cleanup(StateManager_new(ledgerFile), fs)
    /\ events = <<JsonMessage_start(NumProgressFiles)>>
                   \o [f \in 1..NumProgressFiles |-> JsonMessage_file_start(f)]

\* self.increment_current().await
IncrementCurrent(f) ==
    /\ pc[f] = "completing"
    /\ tracker' = increment_current(tracker)
    /\ pc' = [pc EXCEPT ![f] = "adding"]
    /\ UNCHANGED <<envVars, encoder, cm, permits, pcMain, idx, joined, result, timedOut,
                   stats, fs, ledgerFile, local, now, hist>>

\* self.add_optimized / add_skipped / add_error().await, then file_complete
AddOutcome(f) ==
    /\ pc[f] = "adding"
    /\ tracker' = add_outcome(tracker, result[f], local[f].processed)
    /\ events' = emit(events, config, FileCompleteMessages(f))
    /\ pc' = [pc EXCEPT ![f] = IF config.json_output THEN "read_current" ELSE "returning"]
    /\ UNCHANGED <<quietVars, encoder, cm, permits, pcMain, idx, joined, result, timedOut,
                   stats, fs, ledgerFile, local, now, hist>>

\* emit_progress: the counters in the order it locks and reads them
ProgressReads ==
    << [at |-> "read_current",   counter |-> "current_file",    then |-> "read_optimized"],
       [at |-> "read_optimized", counter |-> "files_optimized", then |-> "read_skipped"],
       [at |-> "read_skipped",   counter |-> "files_skipped",   then |-> "read_errors"],
       [at |-> "read_errors",    counter |-> "errors",          then |-> "read_saved"],
       [at |-> "read_saved",     counter |-> "bytes_saved",     then |-> "returning"] >>

\* let x = *self.<counter>.lock().await
ReadCounter(f) ==
    /\ \E k \in DOMAIN ProgressReads :
          /\ pc[f] = ProgressReads[k].at
          /\ local' = [local EXCEPT ![f].progress[ProgressReads[k].counter] =
                                       tracker[ProgressReads[k].counter]]
          /\ pc' = [pc EXCEPT ![f] = ProgressReads[k].then]
    /\ UNCHANGED <<envVars, tracker, encoder, cm, permits, pcMain, idx, joined, result,
                   timedOut, stats, fs, ledgerFile, now, hist>>

\* JsonMessage::progress(..).emit() with what was read; handle_file_completion
\* returns, the task returns its result and its permit is dropped.
EmitProgressAndReturn(f) ==
    /\ pc[f] = "returning"
    /\ events' = emit(events, config, <<ProgressMessage(local[f].progress)>>)
    /\ cm' = [cm EXCEPT ![SemaphoreOf(permits[f].class)] = @ + 1]
    /\ permits' = [permits EXCEPT ![f].class = "none"]
    /\ pc' = [pc EXCEPT ![f] = "settled"]
    /\ UNCHANGED <<quietVars, tracker, encoder, pcMain, idx, joined, result, timedOut,
                   stats, fs, ledgerFile, local, now, hist>>

NextProgress ==
    \/ \E f \in FileIds : IncrementCurrent(f)
    \/ \E f \in FileIds : AddOutcome(f)
    \/ \E f \in FileIds : ReadCounter(f)
    \/ \E f \in FileIds : EmitProgressAndReturn(f)
    \/ JoinTask
    \/ FinalReport

SpecProgress == InitProgress /\ [][NextProgress]_vars

\* The progress messages emitted so far.
ProgressEvents == {i \in DOMAIN events : events[i].type = "progress"}

\* C34: the counter of completed files never exceeds the number of files of
\* the run, in the tracker and in every progress message, and neither does
\* the sum of the three outcome counters of a message.
C34_CurrentWithinTotal ==
    /\ tracker.current_file <= Len(discovered)
    /\ \A i \in ProgressEvents :
          /\ events[i].total = Len(discovered)
          /\ events[i].current <= events[i].total
          /\ events[i].files_optimized + events[i].files_skipped + events[i].errors
                <= events[i].total

\* A progress message was emitted whose `current` is greater than the sum
\* of its outcome counters: another task had incremented the counter of
\* completed files and not yet added its outcome.
C34_Witness ==
    \E i \in ProgressEvents :
        events[i].current
           > events[i].files_optimized + events[i].files_skipped + events[i].errors

\* C35: when the run completes, every discovered file has been counted
\* once in the statistics of the run: files_processed is the number of
\* discovered files, and it is the sum of files_optimized, files_skipped
\* and errors.
C35_EveryFileCountedOnce ==
    pcMain = "done"
       => /\ stats.files_processed = Len(discovered)
          /\ stats.files_processed
                = stats.files_optimized + stats.files_skipped + stats.errors

\* A run of two files has completed, one file skipped and the other failed
\* on its timeout: two files processed, one skipped, one error.
C35_Witness ==
    /\ pcMain = "done"
    /\ Len(discovered) = 2
    /\ \E f, g \in FileIds : result[f] = "skipped" /\ timedOut[g]
    /\ stats.files_processed = 2 /\ stats.files_skipped = 1 /\ stats.errors = 1

(***************************************************************************)
(* One execution in place with structured output; the ledger is empty or   *)
(* holds the record an earlier execution left for the first file.          *)
(***************************************************************************)
InitReport ==
    /\ \E d \in BOOLEAN, w \in BOOLEAN, t \in Thresholds :
          InitPipe([ json_output |-> TRUE, jpeg_quality |-> 80, webp_quality |-> 80,
                     video_crf |-> 26, workers |-> 2, output_set |-> FALSE,
                     output_path |-> OutDir, dry_run |-> d, keep_processed |-> FALSE,
                     convert_to_webp |-> w, size_threshold |-> t,
                     input_base_dir |-> MediaDir ], NumPipeFiles)
    /\ \/ ledgerFile = EmptyLedger
       \/ \E m \in 0..MaxClock :
             ledgerFile = insert_processed(EmptyLedger, InPath(1),
                                           ProcessedFile_new(m, 10, 9))
    /\ state_manager = StateManager_new(ledgerFile)

SpecReport == InitReport /\ [][NextInPlace]_vars

\* The final report of a run that had files to process.
Reported == pcMain = "done" /\ discovered # <<>> /\ config.json_output
FinalMessage == events[Len(events)]

\* C36: the lifetime statistics of the final report are those of the state
\* the orchestrator's StateManager holds in memory (loaded at start, after
\* cleanup), whatever the ledger file holds by then.
C36_LifetimeStatsFromSnapshot ==
    Reported
       => /\ FinalMessage.type = "complete"
          /\ FinalMessage.historical_stats.total_files_ever_processed
                = Cardinality(DOMAIN state_manager.state)
          /\ FinalMessage.historical_stats.total_bytes_saved_historically
                = total_saved(state_manager.state, DOMAIN state_manager.state)

\* The ledger was empty at start and the task of the run has written the
\* record of its file to it: the report counts no file ever processed and
\* no byte saved, while the ledger file holds one record.
C36_Witness ==
    /\ Reported
    /\ state_manager.state = EmptyLedger
    /\ \E f \in FileIds :
          /\ result[f] = "optimized"
          /\ InPath(f) \in DOMAIN ledgerFile
          /\ ledgerFile[InPath(f)].optimized_size < ledgerFile[InPath(f)].original_size
    /\ FinalMessage.historical_stats.total_files_ever_processed = 0
    /\ FinalMessage.historical_stats.total_bytes_saved_historically = 0

(***************************************************************************)
(* One execution in place over a ledger file that cannot be parsed: the    *)
(* beginning of a ledger that records the file with its current            *)
(* modification time.                                                      *)
(***************************************************************************)
RecordedLedger ==
    insert_processed(EmptyLedger, [dir |-> MediaDir, stem |-> Stems[1], ext |-> "jpg"],
                     ProcessedFile_new(1, 10, 9))

InitUnparsable ==
    /\ \E d \in BOOLEAN, w \in BOOLEAN, t \in Thresholds :
          InitPipe([ json_output |-> FALSE, jpeg_quality |-> 80, webp_quality |-> 80,
                     video_crf |-> 26, workers |-> 2, output_set |-> FALSE,
                     output_path |-> OutDir, dry_run |-> d, keep_processed |-> FALSE,
                     convert_to_webp |-> w, size_threshold |-> t,
                     input_base_dir |-> MediaDir ], NumPipeFiles)
    /\ ledgerFile = Truncated(RecordedLedger)
    /\ state_manager = StateManager_new(ledgerFile)

SpecUnparsable == InitUnparsable /\ [][NextInPlace]_vars

\* C37: a ledger file that cannot be parsed is read as an empty ledger and
\* is no error: while the file is unparsable no task skips its file, the
\* orchestrator's state is empty and its run is not aborted, and the step
\* that next writes the file leaves a ledger that holds the new record and
\* nothing else.
C37_UnparsableLedgerIsEmpty ==
    [][ IsUnparsable(ledgerFile)
           => /\ state_manager.state = EmptyLedger
              /\ pcMain' # "aborted"
              /\ \A f \in FileIds :
                    /\ result'[f] # "skipped"
                    /\ (pc[f] = "skipcheck" /\ pc'[f] # "skipcheck" /\ ~timedOut'[f])
                          => pc'[f] = "optimize"
              /\ ledgerFile' # ledgerFile
                    => \E f \in FileIds :
                          ledgerFile' = insert_processed(EmptyLedger, InPath(f),
                                                         local[f].processed) ]_vars

\* The file the unparsable ledger was to record as processed has been
\* encoded again and recorded: the ledger file is now a ledger of that one
\* record.
C37_Witness ==
    \E f \in FileIds :
        /\ files[f].ext = "jpg" /\ local[f].modified_time = 1
        /\ hist[run][f].encoded /\ result[f] = "optimized"
        /\ ~IsUnparsable(ledgerFile)
        /\ ledgerFile = insert_processed(EmptyLedger, InPath(f), local[f].processed)
        /\ pcMain = "done"

(***************************************************************************)
(* Two files of one directory whose names differ only by extension, with   *)
(* an output directory.                                                    *)
(***************************************************************************)
SameStemPairs == {<<"mov", "avi">>, <<"jpg", "png">>}

InitSameStem ==
    /\ \E k \in BOOLEAN, w \in BOOLEAN :
          config = [ json_output |-> FALSE, jpeg_quality |-> 80, webp_quality |-> 80, video_crf |-> 26,
                     workers |-> 2, output_set |-> TRUE, output_path |-> OutDir,
                     dry_run |-> FALSE, keep_processed |-> k,
                     convert_to_webp |-> w, size_threshold |-> DefaultThreshold,
                     input_base_dir |-> MediaDir ]
    /\ \E pair \in SameStemPairs :
          files = [i \in 1..2 |-> [stem |-> Stems[1], ext |-> pair[i], size |-> 10]]
    /\ file_sizes = [f \in 1..2 |-> 0]
    /\ discovered = <<>>
    /\ InitTasks(2)
    /\ now = 1
    /\ fs = OriginalFiles(2)
    /\ cm = ConcurrencyManager_new(config.workers)
    /\ pcMain = "start"
    /\ dependencies = "ok"
    /\ ledgerFile = EmptyLedger
    /\ state_manager = StateManager_new(ledgerFile)

SpecSameStem == InitSameStem /\ [][NextOutDirOnce]_vars

\* Both files are videos, or both are images and convert_to_webp is set.
SameOutputKind(f, g) ==
    \/ is_video(files[f].ext) /\ is_video(files[g].ext)
    \/ /\ config.convert_to_webp
       /\ ~is_video(files[f].ext)
       /\ ~is_video(files[g].ext)

ResolvedPath(f) == PathResolver_get_output_path(InPath(f), config.input_base_dir, config)

\* C38: two distinct files of one directory whose names differ only by
\* extension resolve to one output path when both are videos or when both
\* are images and convert_to_webp is set (and to two paths otherwise), and
\* the encoders of two such tasks write to one and the same file.
C38_SameStemSameOutput ==
    \A f \in FileIds : \A g \in FileIds \ {f} :
        (InPath(f).dir = InPath(g).dir /\ InPath(f).stem = InPath(g).stem)
           => /\ InPath(f) # InPath(g)
              /\ (ResolvedPath(f) = ResolvedPath(g)) <=> SameOutputKind(f, g)
              /\ (/\ SameOutputKind(f, g)
                  /\ local[f].optimized_path # NoPath
                  /\ local[g].optimized_path # NoPath)
                    => local[f].optimized_path = local[g].optimized_path

\* With keep_processed, the first task has encoded and written the shared
\* output path, and the second task is skipped although it was never
\* encoded.
C38_Witness ==
    /\ config.keep_processed
    /\ SameOutputKind(1, 2)
    /\ hist[run][1].encoded
    /\ hist[run][1].outcome = "kept"
    /\ Exists(fs, ResolvedPath(1))
    /\ fs[ResolvedPath(1)].data.of = 1
    /\ hist[run][2].outcome = "skipped"
    /\ ~hist[run][2].encoded
    /\ pcMain = "done"

\* The task of f went through the whole pipeline and returned
\* Ok(Some(processed_file)), the result kept or discarded.
CompletedPipeline(f) ==
    /\ pc[f] \in {"completing", "settled"}
    /\ hist[run][f].outcome \in {"kept", "discarded"}

InitEvents ==
    /\ \E d \in BOOLEAN :
          InitPipe([ json_output |-> TRUE, jpeg_quality |-> 80, webp_quality |-> 80, video_crf |-> 26,
                     workers |-> 2, output_set |-> FALSE, output_path |-> OutDir,
                     dry_run |-> d, keep_processed |-> FALSE,
                     convert_to_webp |-> FALSE, size_threshold |-> DefaultThreshold,
                     input_base_dir |-> MediaDir ], NumConcurrentFiles)
    /\ ledgerFile = EmptyLedger
    /\ state_manager = StateManager_new(ledgerFile)

SpecEvents == InitEvents /\ [][NextInPlace]_vars

\* The positions of the messages of one type, and of one type and file.
EventsOfType(type) == {i \in DOMAIN events : events[i].type = type}
FileEvents(type, f) == {i \in EventsOfType(type) : events[i].file = f}

\* The task of f has run its first statements (file_start is the first).
Started(f) == pc[f] \notin {"unscheduled", "running"}

\* C40: with json_output, `start` is the first message and the only one of
\* its type; a file has no file_start before its task runs and exactly one
\* from then on, at most one file_complete, and none that is not preceded
\* by its file_start; `complete` appears at most once and only as the last
\* message, and it is there once the run has reached its end.
C40_EventStreamOrdered ==
    /\ EventsOfType("start") = IF events = <<>> THEN {} ELSE {1}
    /\ \A f \in FileIds :
          /\ Cardinality(FileEvents("file_start", f)) = IF Started(f) THEN 1 ELSE 0
          /\ Cardinality(FileEvents("file_complete", f)) <= 1
          /\ \A j \in FileEvents("file_complete", f) :
                \E i \in FileEvents("file_start", f) : i < j
    /\ EventsOfType("complete") \subseteq {Len(events)}
    /\ pcMain = "done" => EventsOfType("complete") = {Len(events)}

\* The run has ended after two tasks ran at once: the file_start of the
\* second file precedes the file_complete of the first, both files have
\* their file_complete and their progress message, and `complete` closes
\* the stream.
C40_Witness ==
    /\ pcMain = "done"
    /\ Len(events) = 8
    /\ events[1].type = "start"
    /\ events[8].type = "complete"
    /\ Cardinality(EventsOfType("progress")) = 2
    /\ \E i \in FileEvents("file_start", 2) :
          \E j \in FileEvents("file_complete", 1) : i < j
    /\ FileEvents("file_complete", 2) # {}
====
